---------------------------- MODULE Spec2Model ----------------------------
(***************************************************************************)
(* Ranked "Infected" bot: the MMR computation and match settlement core of *)
(* src/app/bot/bot.py (SQLite tables players / matches / match_players,    *)
(* calculate_mmr, get_rank, finalize_match and the admin commands).        *)
(*                                                                         *)
(* Strings are written without emoji and accents (TLA+ strings are ASCII). *)
(* Python's None and the empty string are both falsy wherever the code     *)
(* tests them, and are both written "" here; None and the empty list of    *)
(* scenarios are both written << >>.                                       *)
(***************************************************************************)
EXTENDS Integers, Sequences, FiniteSets, TLC

(***************************************************************************)
(* Bounds of the model.                                                    *)
(***************************************************************************)
MaxBase == 160       \* calculate_mmr is not tried on a base beyond this magnitude
MaxMatches == 2      \* finalize_match calls in one behaviour
MaxRankOffset == 30  \* get_rank is tried this far around every threshold
MaxScenarios == 2    \* scenarios selected for one match
MaxSeason == 3       \* resetseason is not taken beyond this season id

(***************************************************************************)
(* Static configuration tables.                                            *)
(***************************************************************************)
Fallback == -1000000000

RANKS ==
  << [threshold |-> 2500, name |-> "Alpha-Z"],
     [threshold |-> 2000, name |-> "Mutant"],
     [threshold |-> 1500, name |-> "Zombie"],
     [threshold |-> 1000, name |-> "Survivant"],
     [threshold |-> Fallback, name |-> "Novice"] >>

MMR_CFG ==
  [ humain   |-> [ win_survivor |-> 30, survive_on_loss |-> 10, kill |-> 2,
                   assist |-> 1, survival_time_step |-> 20,
                   survival_time_cap |-> 10, team_loss_penalty |-> -15 ],
    firstz   |-> [ team_win_bonus |-> 25, team_loss_penalty |-> -15, kill |-> 3 ],
    infected |-> [ base_loss |-> -5, kill |-> 3, dmg_step |-> 15, dmg_cap |-> 100 ] ]

SCENARIOS ==
  [ NoHeal |-> -3, Mutation |-> -3, Vampire |-> -3,
    Punch |-> -2, ProtectTheKing |-> -2, DoubleTranchant |-> -2, Bomb |-> -2,
    Glowing |-> -1, CAC |-> -1, Rush |-> -1,
    InitialD |-> 0, Swap |-> 0,
    BlackOut |-> 1, ScenarioChoose |-> 1, DoubleCoeur |-> 1, DernierSurvivant |-> 1,
    LuckyShoot |-> 2, Sacrifice |-> 2,
    Invisible |-> 3, IEM |-> 3, MapRDM |-> 3 ]

MAPS ==
  [ ByteVault |-> "small", Vertigo |-> "small", Volcano |-> "small",
    Kermor |-> "small", Museum |-> "small", Dome |-> "small", EgoutZ |-> "small",
    Mirage |-> "small", Bayfront |-> "small",
    Frozen |-> "mid", Ravin |-> "mid", Nature |-> "mid", SquareT |-> "mid",
    Inferno |-> "mid", Aztec |-> "mid", Osthera |-> "mid", Parc |-> "mid",
    Manoir |-> "mid", Melted |-> "mid", Harran |-> "mid", Split |-> "mid",
    Strell |-> "mid",
    Port |-> "large", Colise |-> "large", Whitewood |-> "large", Villa |-> "large",
    Costa |-> "large", Nuke |-> "large", Menos |-> "large", Canyon |-> "large",
    PlageCheepCheep |-> "large", BlockFort |-> "large" ]

(***************************************************************************)
(* Pure helpers.                                                           *)
(***************************************************************************)
Min(a, b) == IF a <= b THEN a ELSE b

Abs(a) == IF a < 0 THEN -a ELSE a

\* int(num/den) for den > 0: truncation toward zero of the quotient.
TruncDiv(num, den) == IF num >= 0 THEN num \div den ELSE -((-num) \div den)

RECURSIVE SumSeq(_)
SumSeq(s) == IF s = << >> THEN 0 ELSE Head(s) + SumSeq(Tail(s))

\* get_rank: the first entry, scanning from the top, whose threshold is <= mmr.
RECURSIVE RankFrom(_, _)
RankFrom(mmr, i) ==
  IF i > Len(RANKS) THEN RANKS[Len(RANKS)].name
  ELSE IF mmr >= RANKS[i].threshold THEN RANKS[i].name
  ELSE RankFrom(mmr, i + 1)

\* A variant that compares with > instead of >=.
get_rank_strict(mmr) == RankFrom(mmr - 1, 1)

\* A variant without the return after the loop.
get_rank_no_fallback(mmr) == IF mmr >= Fallback THEN RankFrom(mmr, 1) ELSE ""

get_rank(mmr) == RankFrom(mmr, 1)

\* SCENARIOS.get(s, 0)
ScenarioScore(s) == IF s \in DOMAIN SCENARIOS THEN SCENARIOS[s] ELSE 0

\* A variant without the cap on the survival time bonus.
BaseMmr_uncapped_survival(role, winner, is_survivor, kills, assists, dmg, survival_time) ==
  IF role = "humain" THEN
    (IF winner = "humains" /\ is_survivor THEN 30 ELSE IF is_survivor THEN 10 ELSE 0)
    + kills * 2 + assists + (survival_time \div 20)
    + (IF winner = "zombies" THEN -15 ELSE 0)
  ELSE IF role = "firstz" THEN (IF winner = "zombies" THEN 25 ELSE -15) + kills * 3
  ELSE IF role = "infected" THEN -5 + kills * 3 + (Min(dmg, 100) \div 15)
  ELSE 0

\* A variant without the cap on the damage bonus.
BaseMmr_uncapped_dmg(role, winner, is_survivor, kills, assists, dmg, survival_time) ==
  IF role = "humain" THEN
    (IF winner = "humains" /\ is_survivor THEN 30 ELSE IF is_survivor THEN 10 ELSE 0)
    + kills * 2 + assists + Min(survival_time \div 20, 10)
    + (IF winner = "zombies" THEN -15 ELSE 0)
  ELSE IF role = "firstz" THEN (IF winner = "zombies" THEN 25 ELSE -15) + kills * 3
  ELSE IF role = "infected" THEN -5 + kills * 3 + (dmg \div 15)
  ELSE 0

\* A variant that gives the first infected the damage bonus of the infected.
BaseMmr_firstz_dmg(role, winner, is_survivor, kills, assists, dmg, survival_time) ==
  IF role = "humain" THEN
    (IF winner = "humains" /\ is_survivor THEN 30 ELSE IF is_survivor THEN 10 ELSE 0)
    + kills * 2 + assists + Min(survival_time \div 20, 10)
    + (IF winner = "zombies" THEN -15 ELSE 0)
  ELSE IF role = "firstz" THEN
    (IF winner = "zombies" THEN 25 ELSE -15) + kills * 3 + (Min(dmg, 100) \div 15)
  ELSE IF role = "infected" THEN -5 + kills * 3 + (Min(dmg, 100) \div 15)
  ELSE 0

\* The role-conditional base of calculate_mmr, an integer.
BaseMmr(role, winner, is_survivor, kills, assists, dmg, survival_time) ==
  IF role = "humain" THEN
    LET cfg == MMR_CFG.humain IN
      (IF winner = "humains" /\ is_survivor THEN cfg.win_survivor
       ELSE IF is_survivor THEN cfg.survive_on_loss ELSE 0)
      + kills * cfg.kill
      + assists * cfg.assist
      + Min(survival_time \div cfg.survival_time_step, cfg.survival_time_cap)
      + (IF winner = "zombies" THEN cfg.team_loss_penalty ELSE 0)
  ELSE IF role = "firstz" THEN
    LET cfg == MMR_CFG.firstz IN
      (IF winner = "zombies" THEN cfg.team_win_bonus ELSE cfg.team_loss_penalty)
      + kills * cfg.kill
  ELSE IF role = "infected" THEN
    LET cfg == MMR_CFG.infected IN
      cfg.base_loss + kills * cfg.kill + (Min(dmg, cfg.dmg_cap) \div cfg.dmg_step)
  ELSE 0

(***************************************************************************)
(* Binary floating point as Python's float computes it (IEEE 754 double,   *)
(* round to nearest, ties to even).  The magnitude of a float is a record  *)
(* [m, e] that stands for m * 2^e; m has up to 53 bits, more than an       *)
(* integer of TLC holds, and is written as the sequence of its digits in   *)
(* base 2^15, most significant first (<< >> is 0).  Signs are kept apart:  *)
(* the rounding is symmetric.  The values of calculate_mmr are far from    *)
(* the overflow and underflow thresholds of the format.                    *)
(***************************************************************************)
\* The number of significant bits of a double.
Precision == 53

\* The bits of one digit of a long natural number.
DigitBits == 15

Base == 2 ^ DigitBits

\* The digits of an integer n >= 0 of TLC.
RECURSIVE Digits(_)
Digits(n) == IF n = 0 THEN << >> ELSE Append(Digits(n \div Base), n % Base)

\* The integer of TLC with these digits (at most two of them).
RECURSIVE DigitsToNat(_)
DigitsToNat(a) ==
  IF a = << >> THEN 0 ELSE Base * DigitsToNat(SubSeq(a, 1, Len(a) - 1)) + a[Len(a)]

\* Without leading zeros.
RECURSIVE Strip(_)
Strip(a) == IF a # << >> /\ Head(a) = 0 THEN Strip(Tail(a)) ELSE a

Zeros(n) == [i \in 1..n |-> 0]

\* a + b with carry c, on two sequences of digits of the same length.
RECURSIVE AddDigits(_, _, _)
AddDigits(a, b, c) ==
  IF a = << >> THEN (IF c = 0 THEN << >> ELSE <<c>>)
  ELSE LET n == Len(a)
           t == a[n] + b[n] + c
       IN Append(AddDigits(SubSeq(a, 1, n - 1), SubSeq(b, 1, n - 1), t \div Base), t % Base)

\* a + b
Sum(a, b) ==
  LET n == IF Len(a) >= Len(b) THEN Len(a) ELSE Len(b)
  IN AddDigits(Zeros(n - Len(a)) \o a, Zeros(n - Len(b)) \o b, 0)

\* a * k + c for one digit k.
RECURSIVE TimesDigit(_, _, _)
TimesDigit(a, k, c) ==
  IF a = << >> THEN Digits(c)
  ELSE LET n == Len(a)
           t == a[n] * k + c
       IN Append(TimesDigit(SubSeq(a, 1, n - 1), k, t \div Base), t % Base)

\* a * b
RECURSIVE Product(_, _)
Product(a, b) ==
  IF b = << >> THEN << >>
  ELSE Sum(Product(a, SubSeq(b, 1, Len(b) - 1)) \o <<0>>, TimesDigit(a, b[Len(b)], 0))

\* <<a \div d, a % d>> for 0 < d < Base, by long division: q holds the
\* digits of the quotient so far and r the remainder so far.
RECURSIVE DivMod(_, _, _, _)
DivMod(a, d, r, q) ==
  IF a = << >> THEN <<q, r>>
  ELSE DivMod(Tail(a), d, (r * Base + Head(a)) % d, Append(q, (r * Base + Head(a)) \div d))

\* The number of bits of a.
BitLength(a) ==
  LET s == Strip(a)
  IN IF s = << >> THEN 0
     ELSE DigitBits * (Len(s) - 1) + (CHOOSE k \in 1..DigitBits : 2 ^ (k - 1) <= s[1] /\ s[1] < 2 ^ k)

\* a * 2^s
ShiftLeft(a, s) == Strip(TimesDigit(a, 2 ^ (s % DigitBits), 0)) \o Zeros(s \div DigitBits)

\* << a \div 2^s, whether a % 2^s is not 0 >>
ShiftRight(a, s) ==
  LET whole == s \div DigitBits
      kept  == IF whole >= Len(a) THEN << >> ELSE SubSeq(a, 1, Len(a) - whole)
      qr    == DivMod(kept, 2 ^ (s % DigitBits), 0, << >>)
  IN << Strip(qr[1]),
        qr[2] # 0 \/ \E i \in 1..Len(a) : i > Len(a) - whole /\ a[i] # 0 >>

\* high is m without its lowest bits but one, and what it says of them: the
\* last bit of high[1] is the first bit cut off.
RoundHalf(high, e, sticky) ==
  LET keep == DivMod(high[1], 2, 0, << >>)
      odd  == keep[1][Len(keep[1])] % 2 = 1
      up   == keep[2] = 1 /\ (sticky \/ high[2] \/ odd)
  IN [m |-> Strip(IF up THEN Sum(keep[1], <<1>>) ELSE keep[1]), e |-> e]

\* m * 2^e rounded to the bits of m above the lowest cut ones.
RoundAt(m, e, sticky, cut) ==
  IF cut <= 0 THEN [m |-> m, e |-> e]
  ELSE RoundHalf(ShiftRight(m, cut - 1), e + cut, sticky)

\* The double nearest to (m + a fraction) * 2^e, where the fraction is 0
\* unless sticky, and then strictly between 0 and 1 (and m has at least two
\* bits more than a double).
RoundToDouble(m, e, sticky) == RoundAt(m, e, sticky, BitLength(m) - Precision)

\* float(n) for an integer n >= 0 of TLC.
FloatOf(n) == [m |-> Digits(n), e |-> 0]

\* x / d for an integer 0 < d < Base, rounded.
FloatDiv(x, d) ==
  LET ext == Precision + 2 + DigitBits
      qr  == DivMod(ShiftLeft(x.m, ext), d, 0, << >>)
  IN RoundToDouble(Strip(qr[1]), x.e - ext, qr[2] # 0)

\* x + y, rounded.
FloatAdd(x, y) ==
  LET e == IF x.e <= y.e THEN x.e ELSE y.e
  IN RoundToDouble(Sum(ShiftLeft(x.m, x.e - e), ShiftLeft(y.m, y.e - e)), e, FALSE)

\* x * y, rounded.
FloatMul(x, y) == RoundToDouble(Strip(Product(x.m, y.m)), x.e + y.e, FALSE)

\* A variant that rounds to the nearest integer: int(x + 0.5).
FloatInt_nearest(x) ==
  LET y == FloatAdd(x, FloatDiv(FloatOf(1), 2))
  IN IF y.e >= 0 THEN DigitsToNat(ShiftLeft(y.m, y.e))
     ELSE DigitsToNat(ShiftRight(y.m, -y.e)[1])

\* int(x): the integer part.
FloatInt(x) ==
  IF x.e >= 0 THEN DigitsToNat(ShiftLeft(x.m, x.e))
  ELSE DigitsToNat(ShiftRight(x.m, -x.e)[1])

\* The literals 1.05 and 0.95: the doubles nearest to 105/100 and 95/100.
Float_1_05 == FloatDiv(FloatOf(105), 100)

Float_0_95 == FloatDiv(FloatOf(95), 100)

\* 1 + (abs(scenario_factor) / 20) with scenario_factor = sum(valid) /
\* len(valid), for every sum and length within the bounds (the scores lie
\* in -3..3).  TLC computes a constant once: the table saves computing the
\* expression again at every call.
ScenarioWeights ==
  [ n \in 1..MaxScenarios, total \in 1..(3 * MaxScenarios) |->
      FloatAdd(FloatOf(1), FloatDiv(FloatDiv(FloatOf(total), n), 20)) ]

\* A variant that takes the mean over the scenarios of the catalog only.
ScenarioFactor_known_only(winner, scenarios) ==
  LET known == SelectSeq(scenarios, LAMBDA name : name \in DOMAIN SCENARIOS)
      valid == [i \in 1..Len(known) |-> SCENARIOS[known[i]]]
      total == SumSeq(valid)
  IN IF known = << >> THEN << >>
     ELSE IF \/ total > 0 /\ winner = "zombies"
             \/ total < 0 /\ winner = "humains"
          THEN << ScenarioWeights[Len(valid), Abs(total)] >>
          ELSE << >>

\* A variant that rewards the side the scenarios favour.
ScenarioFactor_favoured(winner, scenarios) ==
  IF scenarios = << >> THEN << >>
  ELSE LET valid == [i \in 1..Len(scenarios) |-> ScenarioScore(scenarios[i])]
           total == SumSeq(valid)
       IN IF \/ total > 0 /\ winner = "humains"
             \/ total < 0 /\ winner = "zombies"
          THEN << ScenarioWeights[Len(valid), Abs(total)] >>
          ELSE << >>

\* The factor of the scenario weighting, if any: applied when the mean of
\* the scores favours the losing side.
ScenarioFactor(winner, scenarios) ==
  IF scenarios = << >> THEN << >>
  ELSE LET valid == [i \in 1..Len(scenarios) |-> ScenarioScore(scenarios[i])]
           total == SumSeq(valid)
       IN IF \/ total > 0 /\ winner = "zombies"
             \/ total < 0 /\ winner = "humains"
          THEN << ScenarioWeights[Len(valid), Abs(total)] >>
          ELSE << >>

\* A variant that weights a large map like a small one.
MapFactor_large_as_small(winner, map_name) ==
  IF map_name # "" /\ map_name \in DOMAIN MAPS THEN
    IF MAPS[map_name] \in {"small", "large"}
    THEN (IF winner = "humains" THEN <<Float_1_05>> ELSE <<Float_0_95>>)
    ELSE << >>
  ELSE << >>

\* The factor of the map-size weighting, if any.
MapFactor(winner, map_name) ==
  IF map_name # "" /\ map_name \in DOMAIN MAPS THEN
    LET size == MAPS[map_name] IN
      IF size = "small" THEN (IF winner = "humains" THEN <<Float_1_05>> ELSE <<Float_0_95>>)
      ELSE IF size = "large" THEN (IF winner = "zombies" THEN <<Float_1_05>> ELSE <<Float_0_95>>)
      ELSE << >>
  ELSE << >>

\* base_mmr *= f for every factor in turn.
RECURSIVE Weighted(_, _)
Weighted(x, factors) ==
  IF factors = << >> THEN x ELSE Weighted(FloatMul(x, Head(factors)), Tail(factors))

\* The lists of factors calculate_mmr can come to apply.
FactorLists ==
  { s \o m : s \in {<< >>} \cup { <<ScenarioWeights[k]>> : k \in DOMAIN ScenarioWeights },
             m \in { << >>, <<Float_1_05>>, <<Float_0_95>> } }

\* int(base_mmr) after the factors, for every magnitude of the base within
\* the bounds (a table for the same reason as ScenarioWeights).
WeightedInt ==
  [ magnitude \in 0..MaxBase, factors \in FactorLists |->
      FloatInt(Weighted(FloatOf(magnitude), factors)) ]

\* calculate_mmr.  base_mmr stays an int until a factor is applied; from
\* then on it is a float and int() cuts off its fraction.
calculate_mmr(role, winner, is_survivor, kills, assists, dmg, survival_time, scenarios, map_name) ==
  LET base    == BaseMmr(role, winner, is_survivor, kills, assists, dmg, survival_time)
      factors == ScenarioFactor(winner, scenarios) \o MapFactor(winner, map_name)
  IN IF factors = << >> THEN base
     ELSE IF base < 0 THEN -WeightedInt[-base, factors]
     ELSE WeightedInt[base, factors]

(***************************************************************************)
(* The SQLite database.  A table is the sequence of its rows in rowid      *)
(* order: an INSERT appends (the new rowid is the largest plus one), a     *)
(* DELETE removes, a SELECT without ORDER BY scans in this order.          *)
(***************************************************************************)
VARIABLES
  players,        \* table players
  matches,        \* table matches
  match_players,  \* table match_players
  out,            \* what the latest command returned, logged and displayed
  calls           \* finalize_match calls in flight on their own connections

vars == <<players, matches, match_players, out, calls>>

\* The database as one value.
Db == [players |-> players, matches |-> matches, match_players |-> match_players]

EmptyDb == [players |-> << >>, matches |-> << >>, match_players |-> << >>]

\* The row INSERT INTO players (discord_id, minecraft_name) creates: every
\* other column takes the DEFAULT of the CREATE TABLE statement.
NewPlayer(discord_id, minecraft_name) ==
  [ discord_id |-> discord_id, minecraft_name |-> minecraft_name,
    mmr |-> 1000, wins_humain |-> 0, wins_zombie |-> 0, losses |-> 0,
    kills_zombie |-> 0, kills_humain |-> 0, assists |-> 0, dmg_dealt |-> 0,
    survival_time_best |-> 0, survival_time_avg |-> 0, last_change |-> 0,
    season_id |-> 1, active_ranked |-> 1 ]

HasPlayer(ps, discord_id) == \E i \in 1..Len(ps) : ps[i].discord_id = discord_id

\* fetch_player: the row of this discord_id (the primary key).
fetch_player(ps, discord_id) == ps[CHOOSE i \in 1..Len(ps) : ps[i].discord_id = discord_id]

RECURSIVE SelectRows(_, _)
SelectRows(t, keep) ==
  IF t = << >> THEN << >>
  ELSE LET rest == SelectRows(Tail(t), {i - 1 : i \in keep \ {1}})
       IN IF 1 \in keep THEN <<Head(t)>> \o rest ELSE rest

\* A variant that takes the new minecraft name for an existing discord_id.
upsert_player_rename(ps, discord_id, minecraft_name) ==
  IF HasPlayer(ps, discord_id)
  THEN <<FALSE, [i \in 1..Len(ps) |->
                   IF ps[i].discord_id = discord_id
                   THEN [ps[i] EXCEPT !.minecraft_name = minecraft_name]
                   ELSE ps[i]]>>
  ELSE <<TRUE, Append(ps, NewPlayer(discord_id, minecraft_name))>>

\* upsert_player: <<created, table>>; the INSERT raises IntegrityError on a
\* duplicate primary key, which the function turns into created = FALSE.
upsert_player(ps, discord_id, minecraft_name) ==
  IF HasPlayer(ps, discord_id) THEN <<FALSE, ps>>
  ELSE <<TRUE, Append(ps, NewPlayer(discord_id, minecraft_name))>>

\* A variant that accumulates last_change instead of setting it.
update_player_sum_last(ps, discord_id, mmr_change, wins_h, wins_z, losses, kills_z, kills_h, assists, dmg) ==
  [ i \in 1..Len(ps) |->
      IF ps[i].discord_id = discord_id
      THEN [ ps[i] EXCEPT !.mmr = @ + mmr_change,
                          !.last_change = @ + mmr_change,
                          !.wins_humain = @ + wins_h,
                          !.wins_zombie = @ + wins_z,
                          !.losses = @ + losses,
                          !.kills_zombie = @ + kills_z,
                          !.kills_humain = @ + kills_h,
                          !.assists = @ + assists,
                          !.dmg_dealt = @ + dmg ]
      ELSE ps[i] ]

\* A variant that sets the mmr to the change instead of adding it.
update_player_absolute(ps, discord_id, mmr_change, wins_h, wins_z, losses, kills_z, kills_h, assists, dmg) ==
  [ i \in 1..Len(ps) |->
      IF ps[i].discord_id = discord_id
      THEN [ ps[i] EXCEPT !.mmr = mmr_change,
                          !.last_change = mmr_change,
                          !.wins_humain = @ + wins_h,
                          !.wins_zombie = @ + wins_z,
                          !.losses = @ + losses,
                          !.kills_zombie = @ + kills_z,
                          !.kills_humain = @ + kills_h,
                          !.assists = @ + assists,
                          !.dmg_dealt = @ + dmg ]
      ELSE ps[i] ]

\* update_player: the relative UPDATE ... WHERE discord_id = ?.  The ids are
\* the decimal strings /register stores; int() and str() of such a string
\* give it back, so an id is written as its number throughout.
update_player(ps, discord_id, mmr_change, wins_h, wins_z, losses, kills_z, kills_h, assists, dmg) ==
  [ i \in 1..Len(ps) |->
      IF ps[i].discord_id = discord_id
      THEN [ ps[i] EXCEPT !.mmr = @ + mmr_change,
                          !.last_change = mmr_change,
                          !.wins_humain = @ + wins_h,
                          !.wins_zombie = @ + wins_z,
                          !.losses = @ + losses,
                          !.kills_zombie = @ + kills_z,
                          !.kills_humain = @ + kills_h,
                          !.assists = @ + assists,
                          !.dmg_dealt = @ + dmg ]
      ELSE ps[i] ]

\* SELECT MAX(season_id) FROM players, "or 1".
RECURSIVE MaxSeasonId(_)
MaxSeasonId(ps) ==
  IF ps = << >> THEN 0
  ELSE LET m == MaxSeasonId(Tail(ps))
       IN IF Head(ps).season_id > m THEN Head(ps).season_id ELSE m

\* A variant that reads the season of the newest row instead of the largest.
current_season_last(ps) == IF ps = << >> THEN 1 ELSE ps[Len(ps)].season_id

current_season(ps) == IF MaxSeasonId(ps) = 0 THEN 1 ELSE MaxSeasonId(ps)

\* A variant that keeps the row and switches it to chill.
DeletePlayer_soft(ps, discord_id) ==
  [ i \in 1..Len(ps) |->
      IF ps[i].discord_id = discord_id THEN [ps[i] EXCEPT !.active_ranked = 0]
      ELSE ps[i] ]

\* DELETE FROM players WHERE discord_id = ?
DeletePlayer(ps, discord_id) ==
  SelectRows(ps, {i \in 1..Len(ps) : ps[i].discord_id # discord_id})

\* A variant that resets row after row and stops after the first.
ResetRows_first_only(ps, new_season) ==
  [ i \in 1..Len(ps) |->
      IF i = 1
      THEN [ ps[i] EXCEPT !.mmr = 1000, !.last_change = 0,
                          !.wins_humain = 0, !.wins_zombie = 0, !.losses = 0,
                          !.kills_zombie = 0, !.kills_humain = 0, !.assists = 0,
                          !.dmg_dealt = 0, !.survival_time_best = 0,
                          !.survival_time_avg = 0, !.season_id = new_season ]
      ELSE ps[i] ]

\* A variant of the UPDATE of resetseason that leaves the losses.
ResetRows_keep_losses(ps, new_season) ==
  [ i \in 1..Len(ps) |->
      [ ps[i] EXCEPT !.mmr = 1000, !.last_change = 0,
                     !.wins_humain = 0, !.wins_zombie = 0,
                     !.kills_zombie = 0, !.kills_humain = 0, !.assists = 0,
                     !.dmg_dealt = 0, !.survival_time_best = 0,
                     !.survival_time_avg = 0, !.season_id = new_season ] ]

\* A variant that also switches every player back to ranked.
ResetRows_ranked_on(ps, new_season) ==
  [ i \in 1..Len(ps) |->
      [ ps[i] EXCEPT !.mmr = 1000, !.last_change = 0,
                     !.wins_humain = 0, !.wins_zombie = 0, !.losses = 0,
                     !.kills_zombie = 0, !.kills_humain = 0, !.assists = 0,
                     !.dmg_dealt = 0, !.survival_time_best = 0,
                     !.survival_time_avg = 0, !.season_id = new_season,
                     !.active_ranked = 1 ] ]

\* The UPDATE of resetseason, on every row.
ResetRows(ps, new_season) ==
  [ i \in 1..Len(ps) |->
      [ ps[i] EXCEPT !.mmr = 1000, !.last_change = 0,
                     !.wins_humain = 0, !.wins_zombie = 0, !.losses = 0,
                     !.kills_zombie = 0, !.kills_humain = 0, !.assists = 0,
                     !.dmg_dealt = 0, !.survival_time_best = 0,
                     !.survival_time_avg = 0, !.season_id = new_season ] ]

\* UPDATE players SET active_ranked = v WHERE discord_id = ?
SetActiveRanked(ps, discord_id, v) ==
  [ i \in 1..Len(ps) |->
      IF ps[i].discord_id = discord_id THEN [ps[i] EXCEPT !.active_ranked = v]
      ELSE ps[i] ]


(***************************************************************************)
(* finalize_match.                                                         *)
(*                                                                         *)
(* args: [players: the participant names in the caller's order, roles,     *)
(* kills, dmg: dicts (functions on a finite set of names), scenarios,      *)
(* map_name].                                                              *)
(***************************************************************************)
\* dict.get(key, default)
Get(dict, key, default) == IF key \in DOMAIN dict THEN dict[key] ELSE default

\* winner = "humains" if any(role == "humain" for role in roles.values()) else "zombies"
Winner(roles) ==
  IF \E n \in DOMAIN roles : roles[n] = "humain" THEN "humains" ELSE "zombies"

\* A variant in which a name of no row falls back to the first row.
name_to_data_fallback(ps) ==
  [ name \in {ps[i].minecraft_name : i \in 1..Len(ps)} \union {"Alex", "Steve"} |->
      LET named == {i \in 1..Len(ps) : ps[i].minecraft_name = name}
          last  == IF named = {} THEN 1
                   ELSE CHOOSE i \in named : \A j \in named : j <= i
      IN [ discord_id |-> ps[last].discord_id,
           active_ranked |-> ps[last].active_ranked,
           mmr |-> ps[last].mmr ] ]

\* name_to_data: the dict comprehension over SELECT ... FROM players; a later
\* row with the same minecraft_name replaces an earlier one.
name_to_data(ps) ==
  [ name \in {ps[i].minecraft_name : i \in 1..Len(ps)} |->
      LET last == CHOOSE i \in 1..Len(ps) :
                    /\ ps[i].minecraft_name = name
                    /\ \A j \in 1..Len(ps) : ps[j].minecraft_name = name => j <= i
      IN [ discord_id |-> ps[last].discord_id,
           active_ranked |-> ps[last].active_ranked,
           mmr |-> ps[last].mmr ] ]

\* A variant that stores a fixed winner instead of the computed one.
InsertMatch_humains(ms, winner) ==
  Append(ms, [match_id |-> Len(ms) + 1, date |-> Len(ms) + 1, winner |-> "humains"])

\* INSERT INTO matches (date, winner): match_id is AUTOINCREMENT; the date is
\* the clock at the insert, kept as the logical time of the insert.
InsertMatch(ms, winner) ==
  Append(ms, [match_id |-> Len(ms) + 1, date |-> Len(ms) + 1, winner |-> winner])

\* INSERT INTO match_players (match_id, discord_id, role, kills, dmg, mmr_change, survivor)
InsertMatchPlayer(mps, match_id, discord_id, role, kills, dmg, mmr_change, survivor) ==
  Append(mps, [ id |-> Len(mps) + 1, match_id |-> match_id, discord_id |-> discord_id,
                role |-> role, kills |-> kills, dmg |-> dmg,
                mmr_change |-> mmr_change, survivor |-> survivor ])

\* wins_h, wins_z, losses of one settled participant.
WinsH(role, winner, is_survivor) ==
  IF role = "humain" /\ winner = "humains" /\ is_survivor THEN 1 ELSE 0

\* A variant that credits the first infected whoever wins.
WinsZ_any_winner(role, winner) == IF role = "firstz" THEN 1 ELSE 0

WinsZ(role, winner) == IF role = "firstz" /\ winner = "zombies" THEN 1 ELSE 0

\* A variant that credits a loss to the humain role only.
Losses_humain_only(role, winner) ==
  IF role = "humain" /\ winner = "zombies" THEN 1 ELSE 0

Losses(role, winner) ==
  IF \/ (role = "humain" /\ winner = "zombies")
     \/ (role \in {"infected", "firstz"} /\ winner = "humains")
  THEN 1 ELSE 0

\* A variant that alerts on a promotion only.
RankChanged_promotion(current_mmr, change) ==
  change > 0 /\ get_rank(current_mmr) # get_rank(current_mmr + change)

\* if old_rank != new_rank: await send_rank_alert(...)
RankChanged(current_mmr, change) == get_rank(current_mmr) # get_rank(current_mmr + change)

\* The state of one call inside "with connect_db() as conn": the connection's
\* view of the database, the summary lines, the rank alerts sent, the number
\* of write statements executed and whether one of them raised.
TxnStart(db) == [db |-> db, lines |-> << >>, alerts |-> << >>, writes |-> 0, raised |-> FALSE]

\* One write statement: it raises when it is the fail_at-th of the call
\* (fail_at = 0: the persistence layer does not fail).
Write(st, fail_at, newdb) ==
  IF st.raised THEN st
  ELSE IF st.writes + 1 = fail_at THEN [st EXCEPT !.writes = @ + 1, !.raised = TRUE]
  ELSE [st EXCEPT !.writes = @ + 1, !.db = newdb]

\* A variant that treats every player as ranked.
Chill_never(player_data) == FALSE

\* "if not active_ranked"
Chill(player_data) == player_data.active_ranked = 0

\* A variant of the chill branch that leaves no summary line.
SettleChill_silent(st, name) == st

\* The chill branch: one summary line, then "continue".
SettleChill(st, name) == [st EXCEPT !.lines = Append(@, [kind |-> "chill", name |-> name])]

\* The rest of the loop body for a ranked participant, once its role, its
\* statistics and its change are known: the rank alert, the UPDATE, the
\* INSERT and the summary line.
SettleRanked(st, name, player_data, role, winner, is_survivor, k, d, change, match_id, fail_at) ==
  LET st1 == IF RankChanged(player_data.mmr, change)
             THEN [st EXCEPT !.alerts = Append(@, [name |-> name, new_rank |-> get_rank(player_data.mmr + change)])]
             ELSE st
      st2 == Write(st1, fail_at,
               [st1.db EXCEPT !.players =
                  update_player(@, player_data.discord_id, change,
                                WinsH(role, winner, is_survivor), WinsZ(role, winner),
                                Losses(role, winner),
                                IF role \in {"infected", "firstz"} THEN k ELSE 0,
                                IF role = "humain" THEN k ELSE 0,
                                0, d)])
      st3 == Write(st2, fail_at,
               [st2.db EXCEPT !.match_players =
                  InsertMatchPlayer(@, match_id, player_data.discord_id, role, k, d,
                                    change, IF is_survivor THEN 1 ELSE 0)])
  IN IF st3.raised THEN st3
     ELSE [st3 EXCEPT !.lines = Append(@, [ kind |-> "settled", name |-> name, role |-> role,
                                             survivor |-> is_survivor, kills |-> k, dmg |-> d,
                                             change |-> change ])]

\* The body of "for name in players" for one name.
SettleOne(st, name, args, winner, snapshot, match_id, fail_at) ==
  IF st.raised THEN st
  ELSE IF name \notin DOMAIN snapshot THEN st
  ELSE
    LET player_data == snapshot[name] IN
    IF Chill(player_data)
    THEN SettleChill(st, name)
    ELSE
      LET role        == Get(args.roles, name, "humain")
          is_survivor == (role = "humain")
          k           == Get(args.kills, name, 0)
          d           == Get(args.dmg, name, 0)
      IN SettleRanked(st, name, player_data, role, winner, is_survivor, k, d,
                      calculate_mmr(role, winner, is_survivor, k, 0, d, 0,
                                    args.scenarios, args.map_name),
                      match_id, fail_at)

RECURSIVE SettleFrom(_, _, _, _, _, _, _)
SettleFrom(st, i, args, winner, snapshot, match_id, fail_at) ==
  IF i > Len(args.players) THEN st
  ELSE SettleFrom(SettleOne(st, args.players[i], args, winner, snapshot, match_id, fail_at),
                  i + 1, args, winner, snapshot, match_id, fail_at)

\* A variant whose UPDATE writes the mmr read by the SELECT plus the change
\* instead of adding the change to the stored mmr.
Transaction_absolute(db, snapshot, args, fail_at) ==
  LET winner == Winner(args.roles)
      stale  == [db EXCEPT !.players =
                   [i \in 1..Len(db.players) |->
                      [db.players[i] EXCEPT !.mmr = snapshot[db.players[i].minecraft_name].mmr]]]
      st0    == Write(TxnStart(stale), fail_at, [stale EXCEPT !.matches = InsertMatch(@, winner)])
  IN SettleFrom(st0, 1, args, winner, snapshot, Len(db.matches) + 1, fail_at)

\* The statements of the "with" block after the SELECT: the INSERT of the
\* match, then the loop.  snapshot is the name_to_data the SELECT produced.
Transaction(db, snapshot, args, fail_at) ==
  LET winner == Winner(args.roles)
      st0    == Write(TxnStart(db), fail_at, [db EXCEPT !.matches = InsertMatch(@, winner)])
  IN SettleFrom(st0, 1, args, winner, snapshot, Len(db.matches) + 1, fail_at)

\* A variant that keeps what was written before the exception.
ExitWith_keep(committed, st) == st.db

\* Leaving "with connect_db() as conn": COMMIT, or ROLLBACK when the block
\* raised.  committed is the database before the block, st the block's end.
ExitWith(committed, st) == IF st.raised THEN committed ELSE st.db


\* The "registre" report built after the block, one entry per name of players
\* (sent when the guild has the registre channel).
Registre(args, winner) ==
  [ i \in 1..Len(args.players) |->
      LET name == args.players[i]
          role == Get(args.roles, name, "humain")
          k    == Get(args.kills, name, 0)
          d    == Get(args.dmg, name, 0)
      IN [ name |-> name, role |-> role,
           surv |-> (role = "humain" /\ winner = "humains"),
           kills |-> k, dmg |-> d,
           change |-> calculate_mmr(role, winner, role = "humain", k, 0, d, 0, args.scenarios, args.map_name) ] ]

\* What a finalize_match call leaves for its caller and its collaborators.
FinalizeResult(args, st) ==
  [ op |-> "finalize_match", args |-> args, raised |-> st.raised,
    winner |-> Winner(args.roles), alerts |-> st.alerts,
    lines |-> IF st.raised THEN << >> ELSE st.lines,
    registre |-> IF st.raised THEN << >> ELSE Registre(args, Winner(args.roles)) ]

(***************************************************************************)
(* The inputs the commands are given.                                      *)
(***************************************************************************)
Ids == {1, 2}

Names == {"Alex", "Steve"}

Roles == {"humain", "infected", "firstz"}

\* Lists of distinct names (the players picker refuses a name twice), in
\* the order of the picker.
PlayerLists == { << >>, <<"Alex">>, <<"Steve">>, <<"Alex", "Steve">> }

\* Python dicts with keys in keys and values in vals.
Dicts(keys, vals) == UNION {[d -> vals] : d \in SUBSET keys}

Range(s) == {s[i] : i \in 1..Len(s)}

\* What was entered for one match: the kills and damage typed for every
\* participant, the scenarios and the map.
Sheets ==
  { [kills |-> 0, dmg |-> 0, scenarios |-> << >>, map_name |-> ""],
    [kills |-> 2, dmg |-> 40, scenarios |-> <<"IEM">>, map_name |-> "Vertigo"] }

\* The arguments of finalize_match: roles assigns a role to some of the
\* participants (the assignment can be reset while the stats are entered).
MatchArgs ==
  UNION { { [ players |-> ps, roles |-> r,
              kills |-> [n \in Range(ps) |-> sh.kills],
              dmg |-> [n \in Range(ps) |-> sh.dmg],
              scenarios |-> sh.scenarios, map_name |-> sh.map_name ]
            : r \in Dicts(Range(ps), Roles), sh \in Sheets } : ps \in PlayerLists }

(***************************************************************************)
(* The commands.                                                           *)
(***************************************************************************)
\* /register
Register(discord_id, minecraft_name) ==
  LET r == upsert_player(players, discord_id, minecraft_name) IN
    /\ players' = r[2]
    /\ out' = [op |-> "register", discord_id |-> discord_id,
                minecraft_name |-> minecraft_name, created |-> r[1]]
    /\ UNCHANGED <<matches, match_players, calls>>

\* A variant of /unlink that also deletes the participation rows of the player.
Unlink_cascade(discord_id) ==
  /\ players' = DeletePlayer(players, discord_id)
  /\ match_players' = SelectRows(match_players,
                         {i \in 1..Len(match_players) : match_players[i].discord_id # discord_id})
  /\ out' = [op |-> "unlink", discord_id |-> discord_id]
  /\ UNCHANGED <<matches, calls>>

\* /unlink
Unlink(discord_id) ==
  /\ players' = DeletePlayer(players, discord_id)
  /\ out' = [op |-> "unlink", discord_id |-> discord_id]
  /\ UNCHANGED <<matches, match_players, calls>>

\* /resetseason
ResetSeason ==
  /\ current_season(players) < MaxSeason
  /\ players' = ResetRows(players, current_season(players) + 1)
  /\ out' = [op |-> "resetseason", new_season |-> current_season(players) + 1]
  /\ UNCHANGED <<matches, match_players, calls>>

\* /ranked_on
RankedOn(discord_id) ==
  /\ players' = SetActiveRanked(players, discord_id, 1)
  /\ out' = [op |-> "ranked_on", discord_id |-> discord_id]
  /\ UNCHANGED <<matches, match_players, calls>>

\* /ranked_off
RankedOff(discord_id) ==
  /\ players' = SetActiveRanked(players, discord_id, 0)
  /\ out' = [op |-> "ranked_off", discord_id |-> discord_id]
  /\ UNCHANGED <<matches, match_players, calls>>

\* finalize_match, run to its end without another connection in between:
\* the block holds no await that suspends (send_rank_alert only logs).
FinalizeMatch(args) ==
  /\ Len(matches) < MaxMatches
  /\ \E st \in {Transaction(Db, name_to_data(players), args, 0)} :
       \E db \in {ExitWith(Db, st)} :
         /\ players' = db.players
         /\ matches' = db.matches
         /\ match_players' = db.match_players
         /\ out' = FinalizeResult(args, st)
  /\ UNCHANGED calls

(***************************************************************************)
(* Spec: settlements on a database that earlier commands left.             *)
(***************************************************************************)
\* The players table after /register by each of ids as names[id], then
\* /ranked_off by the ids of chill.
RECURSIVE Registered(_, _, _)
Registered(ids, names, chill) ==
  IF ids = << >> THEN << >>
  ELSE LET before == Registered(SubSeq(ids, 1, Len(ids) - 1), names, chill)
           id     == ids[Len(ids)]
           with   == upsert_player(before, id, names[id])[2]
       IN IF id \in chill THEN SetActiveRanked(with, id, 0) ELSE with

\* Both registered; one of them chill; one of the two names unknown; two
\* accounts under the same minecraft name.
StartTables ==
  { Registered(<<1, 2>>, <<"Alex", "Steve">>, {}),
    Registered(<<1, 2>>, <<"Alex", "Steve">>, {1}),
    Registered(<<1, 2>>, <<"Alex", "Steve">>, {2}),
    Registered(<<1>>, <<"Alex", "Steve">>, {}),
    Registered(<<2>>, <<"Alex", "Steve">>, {}),
    Registered(<<1, 2>>, <<"Alex", "Alex">>, {}) }

NoCalls == << >>

Init ==
  /\ players \in StartTables
  /\ matches = << >>
  /\ match_players = << >>
  /\ out = [op |-> "init_db"]
  /\ calls = NoCalls

Next == \E args \in MatchArgs : FinalizeMatch(args)

Spec == Init /\ [][Next]_vars

(***************************************************************************)
(* SpecConc: two finalize_match calls, each on its own connection          *)
(* (connect_db() per call).  sqlite3 runs the SELECT outside a transaction *)
(* and opens one at the first INSERT, so between the SELECT of a call and  *)
(* its writes another connection to the database file can commit; from its *)
(* first write to its COMMIT a call holds the write lock of the database.  *)
(* Inside the bot process the two steps of a call follow each other        *)
(* without a suspension, which is one of the interleavings below.          *)
(***************************************************************************)
Conns == {1, 2}

Idle == [pc |-> "idle"]

\* The calls of the usual flow: at least one participant, a role for each.
ConcArgs == {a \in MatchArgs : a.players # << >> /\ DOMAIN a.roles = Range(a.players)}

\* Up to the SELECT: the winner, the connection, name_to_data.
BeginFinalize(c, args) ==
  /\ calls[c].pc = "idle"
  /\ calls' = [calls EXCEPT ![c] = [pc |-> "selected", args |-> args,
                                    snapshot |-> name_to_data(players)]]
  /\ UNCHANGED <<players, matches, match_players, out>>

\* From the INSERT of the match to the COMMIT.
CommitFinalize(c) ==
  /\ calls[c].pc = "selected"
  /\ \E st \in {Transaction(Db, calls[c].snapshot, calls[c].args, 0)} :
       \E db \in {ExitWith(Db, st)} :
         /\ players' = db.players
         /\ matches' = db.matches
         /\ match_players' = db.match_players
         /\ out' = FinalizeResult(calls[c].args, st)
  /\ calls' = [calls EXCEPT ![c] = [pc |-> "done", args |-> calls[c].args,
                                    snapshot |-> calls[c].snapshot]]

InitConc ==
  /\ players \in StartTables
  /\ matches = << >>
  /\ match_players = << >>
  /\ out = [op |-> "init_db"]
  /\ calls = [c \in Conns |-> Idle]

NextConc ==
  \E c \in Conns :
    \/ \E args \in ConcArgs : BeginFinalize(c, args)
    \/ CommitFinalize(c)

SpecConc == InitConc /\ [][NextConc]_vars

(***************************************************************************)
(* SpecFail: settlements in which a write statement can fail (the database *)
(* is locked by another connection, the disk is full, ...).  The exception *)
(* leaves the "with" block, which rolls the connection back, and then      *)
(* finalize_match; a behaviour is followed up to its first failed call.    *)
(***************************************************************************)
\* The write statements of one call: the INSERT of the match, then an
\* UPDATE and an INSERT per settled participant.
FailAts == 1..(1 + 2 * Cardinality(Names))

Failed == out.op = "finalize_match" /\ out.raised

\* finalize_match that commits, in a behaviour without a failed call so far.
FinalizeMatchCommits(args) ==
  /\ ~Failed
  /\ FinalizeMatch(args)

\* finalize_match in which the fail_at-th write statement raises.
FinalizeMatchRaises(args, fail_at) ==
  /\ ~Failed
  /\ Len(matches) < MaxMatches
  /\ \E st \in {Transaction(Db, name_to_data(players), args, fail_at)} :
       /\ st.raised
       /\ \E db \in {ExitWith(Db, st)} :
            /\ players' = db.players
            /\ matches' = db.matches
            /\ match_players' = db.match_players
            /\ out' = FinalizeResult(args, st)
  /\ UNCHANGED calls

NextFail ==
  \E args \in ConcArgs :
    \/ FinalizeMatchCommits(args)
    \/ \E fail_at \in FailAts : FinalizeMatchRaises(args, fail_at)

SpecFail == Init /\ [][NextFail]_vars

(***************************************************************************)
(* SpecLife: the commands in any order on a database that init_db has just *)
(* created.  Each command runs its "with" block without a suspension, so a *)
(* command is one step.                                                    *)
(***************************************************************************)
\* The settlement of this specification: Alex as humain and Steve as firstz,
\* nothing else entered.
LifeArgs ==
  {a \in ConcArgs : /\ a.players = <<"Alex", "Steve">>
                    /\ a.roles["Alex"] = "humain"
                    /\ a.roles["Steve"] = "firstz"
                    /\ a.scenarios = << >>}

\* The identities that use /ranked_on and /ranked_off.
Togglers == {2}

InitLife ==
  /\ players = << >>
  /\ matches = << >>
  /\ match_players = << >>
  /\ out = [op |-> "init_db"]
  /\ calls = NoCalls

NextLife ==
  \/ \E id \in Ids, name \in Names : Register(id, name)
  \/ \E id \in Ids : Unlink(id)
  \/ ResetSeason
  \/ \E id \in Togglers : RankedOn(id)
  \/ \E id \in Togglers : RankedOff(id)
  \/ \E args \in LifeArgs : FinalizeMatch(args)

SpecLife == InitLife /\ [][NextLife]_vars

(***************************************************************************)
(* SpecRank: get_rank applied to an mmr near one of the thresholds of      *)
(* RANKS, the fallback entry included.                                     *)
(***************************************************************************)
RankInputs ==
  {RANKS[i].threshold + d : i \in 1..Len(RANKS), d \in (-MaxRankOffset)..MaxRankOffset}

InitRank ==
  /\ players = << >>
  /\ matches = << >>
  /\ match_players = << >>
  /\ out \in {[op |-> "mmr", mmr |-> m] : m \in RankInputs}
  /\ calls = NoCalls

GetRank ==
  /\ out.op = "mmr"
  /\ out' = [op |-> "get_rank", mmr |-> out.mmr, rank |-> get_rank(out.mmr)]
  /\ UNCHANGED <<players, matches, match_players, calls>>

NextRank == GetRank

SpecRank == InitRank /\ [][NextRank]_vars

(***************************************************************************)
(* SpecReset: /resetseason next to the other users of the database.  As in *)
(* SpecConc a command that reads and then writes is split at the point     *)
(* where sqlite3 opens the transaction: resetseason into its SELECT MAX    *)
(* and its UPDATE with the COMMIT, finalize_match as before; /register and *)
(* /leaderboard run between them.  The database starts with one settled    *)
(* match.                                                                  *)
(***************************************************************************)
\* The databases one settlement of LifeArgs leaves on the start tables.
SettledDbs ==
  { Transaction([EmptyDb EXCEPT !.players = t], name_to_data(t), a, 0).db :
      t \in StartTables, a \in LifeArgs }

\* The orders in which ORDER BY mmr DESC can return the rows at the
\* positions in idx (rows of equal mmr come in either order).
ByMmrDesc(ps, idx) ==
  { f \in [1..Cardinality(idx) -> idx] :
      /\ \A i, j \in 1..Cardinality(idx) : i # j => f[i] # f[j]
      /\ \A i, j \in 1..Cardinality(idx) : i < j => ps[f[i]].mmr >= ps[f[j]].mmr }

\* /leaderboard up to its SELECT MAX(season_id).
BeginLeaderboard(c) ==
  /\ calls[c].pc = "idle"
  /\ calls' = [calls EXCEPT ![c] = [pc |-> "board_selected",
                                    cur_season |-> current_season(players)]]
  /\ UNCHANGED <<players, matches, match_players, out>>

\* The second SELECT of /leaderboard: the rows of the season read before, by
\* descending mmr (LIMIT 10 is beyond the tables of this model).
EndLeaderboard(c) ==
  /\ calls[c].pc = "board_selected"
  /\ \E f \in ByMmrDesc(players, {i \in 1..Len(players) :
                                    players[i].season_id = calls[c].cur_season}) :
       out' = [ op |-> "leaderboard", season |-> calls[c].cur_season,
                rows |-> [i \in DOMAIN f |-> [ minecraft_name |-> players[f[i]].minecraft_name,
                                               mmr |-> players[f[i]].mmr ]] ]
  /\ calls' = [calls EXCEPT ![c] = [pc |-> "board_done", cur_season |-> calls[c].cur_season]]
  /\ UNCHANGED <<players, matches, match_players>>

\* /resetseason up to its SELECT MAX(season_id).
BeginReset(c) ==
  /\ calls[c].pc = "idle"
  /\ current_season(players) < MaxSeason
  /\ calls' = [calls EXCEPT ![c] = [pc |-> "reset_selected",
                                    new_season |-> current_season(players) + 1]]
  /\ UNCHANGED <<players, matches, match_players, out>>

\* The UPDATE of /resetseason and its COMMIT.
CommitReset(c) ==
  /\ calls[c].pc = "reset_selected"
  /\ players' = ResetRows(players, calls[c].new_season)
  /\ out' = [op |-> "resetseason", new_season |-> calls[c].new_season]
  /\ calls' = [calls EXCEPT ![c] = [pc |-> "reset_done", new_season |-> calls[c].new_season]]
  /\ UNCHANGED <<matches, match_players>>

InitReset ==
  /\ \E db \in SettledDbs :
       /\ players = db.players
       /\ matches = db.matches
       /\ match_players = db.match_players
  /\ out = [op |-> "init_db"]
  /\ calls = [c \in Conns |-> Idle]

NextReset ==
  \/ \E c \in Conns : BeginReset(c)
  \/ \E c \in Conns : CommitReset(c)
  \/ \E c \in Conns, args \in LifeArgs : BeginFinalize(c, args)
  \/ \E c \in Conns : CommitFinalize(c)
  \/ \E id \in Ids, name \in Names : Register(id, name)
  \/ \E c \in Conns : BeginLeaderboard(c)
  \/ \E c \in Conns : EndLeaderboard(c)

SpecReset == InitReset /\ [][NextReset]_vars

(***************************************************************************)
(* SpecMmr: calculate_mmr applied to one set of arguments.                 *)
(***************************************************************************)
MaxKills == 35       \* the largest number of kills calculate_mmr is tried on

Winners == {"humains", "zombies"}

KillsTried == {0, 1, 2, MaxKills}

AssistsTried == {0, 3}

\* None, between dmg_step and dmg_cap, and above dmg_cap.
DmgTried == {0, 40, 250}

\* Below one survival_time_step, between and beyond the cap.
SurvivalTried == {0, 45, 400}

\* Scenario names: three of the catalog (scores -3, -2, +2) and one that is
\* not in it.
ScenarioPool == <<"NoHeal", "Punch", "LuckyShoot", "Inconnu">>

\* None or the empty list, and every selection of up to MaxScenarios names,
\* listed in the order of the pool (the code sums the scores, so the order
\* of a selection does not matter).
ScenarioLists ==
  UNION { { [i \in 1..n |-> ScenarioPool[f[i]]] :
              f \in {g \in [1..n -> 1..Len(ScenarioPool)] :
                       \A i \in 1..(n - 1) : g[i] <= g[i + 1]} } : n \in 0..MaxScenarios }

\* No map, a small, a mid-size and a large map, and a name not in MAPS.
MapsTried == {"", "Vertigo", "Frozen", "Port", "Inconnue"}

MmrCalls ==
  [ op : {"call"}, role : Roles, winner : Winners, is_survivor : BOOLEAN,
    kills : KillsTried, assists : AssistsTried, dmg : DmgTried,
    survival_time : SurvivalTried, scenarios : ScenarioLists, map_name : MapsTried ]

InitMmr ==
  /\ players = << >>
  /\ matches = << >>
  /\ match_players = << >>
  /\ out \in MmrCalls
  /\ calls = NoCalls

CalculateMmr ==
  /\ out.op = "call"
  /\ out' = [ op |-> "calculate_mmr", role |-> out.role, winner |-> out.winner,
              is_survivor |-> out.is_survivor, kills |-> out.kills,
              assists |-> out.assists, dmg |-> out.dmg,
              survival_time |-> out.survival_time,
              scenarios |-> out.scenarios, map_name |-> out.map_name,
              result |-> calculate_mmr(out.role, out.winner, out.is_survivor,
                                       out.kills, out.assists, out.dmg,
                                       out.survival_time, out.scenarios, out.map_name) ]
  /\ UNCHANGED <<players, matches, match_players, calls>>

NextMmr == CalculateMmr

SpecMmr == InitMmr /\ [][NextMmr]_vars

(***************************************************************************)
(* SpecPure: calculate_mmr called again with the arguments of an earlier   *)
(* call, after registrations, settlements, season resets and unlinks.  The *)
(* first call is made on the empty database; calls keeps its arguments and *)
(* its result for the caller (finalize_match itself calls twice with the   *)
(* same arguments, before and after its writes).                           *)
(***************************************************************************)
\* Two calls: one through both weightings, one that returns the base.
PureCalls ==
  { c \in MmrCalls :
      \/ /\ c.role = "humain" /\ c.winner = "humains" /\ c.is_survivor
         /\ c.kills = MaxKills /\ c.assists = 0 /\ c.dmg = 0 /\ c.survival_time = 0
         /\ c.scenarios = <<"NoHeal">> /\ c.map_name = "Vertigo"
      \/ /\ c.role = "infected" /\ c.winner = "zombies" /\ ~c.is_survivor
         /\ c.kills = 2 /\ c.assists = 0 /\ c.dmg = 40 /\ c.survival_time = 0
         /\ c.scenarios = << >> /\ c.map_name = "" }

\* What a call with the arguments c returns.
Returned(c) ==
  [ op |-> "calculate_mmr", role |-> c.role, winner |-> c.winner,
    is_survivor |-> c.is_survivor, kills |-> c.kills, assists |-> c.assists,
    dmg |-> c.dmg, survival_time |-> c.survival_time,
    scenarios |-> c.scenarios, map_name |-> c.map_name,
    result |-> calculate_mmr(c.role, c.winner, c.is_survivor, c.kills, c.assists,
                             c.dmg, c.survival_time, c.scenarios, c.map_name) ]

\* A variant in which the season in progress weighs on the result.
CallMmr_season(c) ==
  /\ out' = [Returned(c) EXCEPT !.result = @ + current_season(players) - 1]
  /\ UNCHANGED <<players, matches, match_players, calls>>

\* A call of calculate_mmr.
CallMmr(c) ==
  /\ out' = Returned(c)
  /\ UNCHANGED <<players, matches, match_players, calls>>

InitPure ==
  /\ players = << >>
  /\ matches = << >>
  /\ match_players = << >>
  /\ \E c \in PureCalls :
       /\ out = Returned(c)
       /\ calls = <<Returned(c)>>

\* The minecraft name each identity registers under.
OwnName == <<"Alex", "Steve">>

NextPure ==
  \/ \E id \in Ids : Register(id, OwnName[id])
  \/ \E id \in Ids : Unlink(id)
  \/ ResetSeason
  \/ \E args \in LifeArgs : FinalizeMatch(args)
  \/ \E c \in PureCalls : CallMmr(c)

SpecPure == InitPure /\ [][NextPure]_vars

(***************************************************************************)
(* SpecStats: the entry of one match.  The roles view assigns a role to    *)
(* every participant and opens the first stats modal; every submitted      *)
(* modal shows a "Continuer" button that opens the next modal or, after    *)
(* the last participant, calls finalize_match.  The roles view stays       *)
(* active while the stats are entered, and the views and modals share one  *)
(* roles dict and one StatsStore.  calls holds the state of the views,     *)
(* next_views the number of "Continuer" views that are active.  A text is  *)
(* the sequence of its characters.                                         *)
(***************************************************************************)
\* The participants picked for the match, both registered and ranked.
players_all == <<"Alex", "Steve">>

DigitValue ==
  [ c \in {"0", "1", "2", "3", "4", "5", "6", "7", "8", "9"} |->
      CASE c = "0" -> 0 [] c = "1" -> 1 [] c = "2" -> 2 [] c = "3" -> 3
        [] c = "4" -> 4 [] c = "5" -> 5 [] c = "6" -> 6 [] c = "7" -> 7
        [] c = "8" -> 8 [] c = "9" -> 9 ]

\* str.strip(), for the blank.
RECURSIVE str_strip(_)
str_strip(s) ==
  IF s = << >> THEN s
  ELSE IF Head(s) = " " THEN str_strip(Tail(s))
  ELSE IF s[Len(s)] = " " THEN str_strip(SubSeq(s, 1, Len(s) - 1))
  ELSE s

\* The value of a run of decimal digits.
RECURSIVE DecimalValue(_)
DecimalValue(s) ==
  IF s = << >> THEN 0
  ELSE 10 * DecimalValue(SubSeq(s, 1, Len(s) - 1)) + DigitValue[s[Len(s)]]

IsDecimal(s) == s # << >> /\ \A i \in 1..Len(s) : s[i] \in DOMAIN DigitValue

\* to_int of on_submit: int((s or "").strip() or default), the default on
\* ValueError.  int() takes an optional sign and decimal digits.
to_int(s, default) ==
  LET t == str_strip(s) IN
    IF t = << >> THEN default
    ELSE IF Head(t) \in {"+", "-"}
      THEN IF IsDecimal(Tail(t))
             THEN (IF Head(t) = "-" THEN -DecimalValue(Tail(t)) ELSE DecimalValue(Tail(t)))
             ELSE default
    ELSE IF IsDecimal(t) THEN DecimalValue(t)
    ELSE default

\* What is typed in the kills field (up to 3 characters) and in the damage
\* field (up to 6 characters).
KillsTexts == { <<"0">>, <<"2">>, <<"-", "5">> }

DmgTexts ==
  { <<" ", "4", "0">>, <<"-", "5">>, <<"a", "b">>, <<"9", "9", "9", "9", "9", "9">> }

NoModal == << >>

\* RolesSelect.__init__: nobody assigned, no store, no modal.
RolesViewStart ==
  [ roles |-> << >>, players_left |-> Range(players_all),
    index |-> 0, started |-> FALSE, results_kills |-> << >>, results_dmg |-> << >>,
    modal |-> NoModal, next_views |-> 0 ]

\* dict[key] = value
Put(dict, key, value) ==
  [k \in DOMAIN dict \cup {key} |-> IF k = key THEN value ELSE dict[k]]

\* _assign_current: the select offers the players left.
AssignCurrent(player, role) ==
  /\ player \in calls.players_left
  /\ calls' = [calls EXCEPT !.roles = Put(@, player, role),
                            !.players_left = @ \ {player}]
  /\ out' = [op |-> "assign"]
  /\ UNCHANGED <<players, matches, match_players>>

\* _reset_all: the roles dict is cleared in place.
ResetAll ==
  /\ calls' = [calls EXCEPT !.roles = << >>, !.players_left = Range(players_all)]
  /\ out' = [op |-> "reset_all"]
  /\ UNCHANGED <<players, matches, match_players>>

\* _start_stats_flow, pressed once: the button is enabled when nobody is
\* left to assign.  It opens the modal of the first participant.
StartStatsFlow ==
  /\ ~calls.started
  /\ calls.players_left = {}
  /\ Cardinality(DOMAIN calls.roles) >= Len(players_all)
  /\ calls' = [calls EXCEPT !.started = TRUE, !.index = 1,
                            !.modal = << [ player |-> players_all[1],
                                           role |-> Get(calls.roles, players_all[1], "humain") ] >>]
  /\ out' = [op |-> "start_stats_flow"]
  /\ UNCHANGED <<players, matches, match_players>>

\* The damage on_submit stores: d = to_int(...); 0 for the role of the
\* modal "humain"; d = max(0, min(d, 1_000_000)).
StoredDmg(role, text) ==
  LET d  == to_int(text, 0)
      d1 == IF role = "humain" THEN 0 ELSE d
      lo == Min(d1, 1000000)
  IN IF lo < 0 THEN 0 ELSE lo

\* PlayerStatsModal.on_submit: the results of the modal's player are stored
\* and one more "Continuer" view is shown.
OnSubmit(kills_text, dmg_text) ==
  /\ calls.modal # NoModal
  /\ LET m == calls.modal[1] IN
       /\ calls' = [calls EXCEPT !.results_kills = Put(@, m.player, to_int(kills_text, 0)),
                                 !.results_dmg = Put(@, m.player, StoredDmg(m.role, dmg_text)),
                                 !.modal = NoModal,
                                 !.next_views = @ + 1]
       /\ out' = [op |-> "on_submit"]
  /\ UNCHANGED <<players, matches, match_players>>

\* The arguments next_btn hands to finalize_match.
StatsArgs ==
  [ players |-> players_all, roles |-> calls.roles,
    kills |-> calls.results_kills, dmg |-> calls.results_dmg,
    scenarios |-> << >>, map_name |-> "" ]

\* NextModalView.next_btn, on any of the views shown so far (they share the
\* store): the modal of the next participant, with the role the roles dict
\* holds now, or finalize_match after the last one and self.stop(), which
\* ends the view that was clicked.
NextBtn ==
  /\ calls.next_views > 0
  /\ IF calls.index < Len(players_all)
     THEN LET nxt == players_all[calls.index + 1] IN
            /\ calls' = [calls EXCEPT !.index = @ + 1,
                                      !.modal = << [ player |-> nxt,
                                                     role |-> Get(calls.roles, nxt, "humain") ] >>]
            /\ out' = [op |-> "send_modal"]
            /\ UNCHANGED <<players, matches, match_players>>
     ELSE /\ Len(matches) < MaxMatches
          /\ \E st \in {Transaction(Db, name_to_data(players), StatsArgs, 0)} :
               \E db \in {ExitWith(Db, st)} :
                 /\ players' = db.players
                 /\ matches' = db.matches
                 /\ match_players' = db.match_players
                 /\ out' = FinalizeResult(StatsArgs, st)
          /\ calls' = [calls EXCEPT !.next_views = @ - 1]

InitStats ==
  /\ players = Registered(<<1, 2>>, players_all, {})
  /\ matches = << >>
  /\ match_players = << >>
  /\ out = [op |-> "matchend"]
  /\ calls = RolesViewStart

NextStats ==
  \/ \E player \in Names, role \in Roles : AssignCurrent(player, role)
  \/ ResetAll
  \/ StartStatsFlow
  \/ \E kills_text \in KillsTexts, dmg_text \in DmgTexts : OnSubmit(kills_text, dmg_text)
  \/ NextBtn

SpecStats == InitStats /\ [][NextStats]_vars

(***************************************************************************)
(* SpecBoard: /leaderboard and update_hall on a players table of up to     *)
(* MaxRows rows.  Both run the same two SELECTs inside one "with" block.   *)
(***************************************************************************)
MaxRows == 12        \* rows of the players table the leaderboard is tried on

BoardLimit == 10     \* LIMIT 10

BoardNames ==
  << "P01", "P02", "P03", "P04", "P05", "P06", "P07", "P08", "P09", "P10",
     "P11", "P12", "P13", "P14", "P15", "P16" >>

\* Tables of n rows: the first k rows carry season s (they went through the
\* resets), the rows registered since carry the DEFAULT 1; the mmr of row i
\* is 1000 + 5 * ((i * step) % modulus), so that the rowid order is not the
\* mmr order and some rows tie.
BoardTables ==
  { [ i \in 1..n |->
        [ NewPlayer(i, BoardNames[i]) EXCEPT
            !.mmr = 1000 + 5 * ((i * step) % modulus),
            !.season_id = IF i <= k THEN s ELSE 1 ] ] :
      n \in 0..MaxRows, k \in 0..MaxRows, s \in 1..2, step \in {1, 3}, modulus \in {7, 11} }

\* The positions with the largest mmr among idx.
TopMmr(ps, idx) == {i \in idx : \A j \in idx : ps[i].mmr >= ps[j].mmr}

\* ORDER BY mmr DESC over the rows at the positions idx: every order SQLite
\* may return (rows of equal mmr come in any order).
RECURSIVE OrderByMmrDesc(_, _)
OrderByMmrDesc(ps, idx) ==
  IF idx = {} THEN { << >> }
  ELSE UNION { { <<i>> \o rest : rest \in OrderByMmrDesc(ps, idx \ {i}) } : i \in TopMmr(ps, idx) }

\* LIMIT n
Limit(rows, n) == SubSeq(rows, 1, Min(n, Len(rows)))

\* A variant without the WHERE clause.
TopOfSeason_every_season(ps, cur_season) ==
  { Limit(order, BoardLimit) : order \in OrderByMmrDesc(ps, 1..Len(ps)) }

\* SELECT minecraft_name, mmr FROM players WHERE season_id = ?
\* ORDER BY mmr DESC LIMIT 10: the positions of the rows returned.
TopOfSeason(ps, cur_season) ==
  { Limit(order, BoardLimit) :
      order \in OrderByMmrDesc(ps, {i \in 1..Len(ps) : ps[i].season_id = cur_season}) }

\* The (minecraft_name, mmr) rows at these positions.
BoardRows(ps, top) ==
  [i \in 1..Len(top) |-> [minecraft_name |-> ps[top[i]].minecraft_name, mmr |-> ps[top[i]].mmr]]

\* /leaderboard
Leaderboard ==
  /\ \E top \in TopOfSeason(players, current_season(players)) :
       out' = [ op |-> "leaderboard", season |-> current_season(players),
                rows |-> BoardRows(players, top) ]
  /\ UNCHANGED <<players, matches, match_players, calls>>

\* update_hall with a hall message configured.
UpdateHall ==
  /\ \E top \in TopOfSeason(players, current_season(players)) :
       out' = [ op |-> "update_hall", season |-> current_season(players),
                rows |-> BoardRows(players, top) ]
  /\ UNCHANGED <<players, matches, match_players, calls>>

InitBoard ==
  /\ players \in BoardTables
  /\ matches = << >>
  /\ match_players = << >>
  /\ out = [op |-> "init_db"]
  /\ calls = NoCalls

NextBoard == Leaderboard \/ UpdateHall

SpecBoard == InitBoard /\ [][NextBoard]_vars

(***************************************************************************)
(* SpecMessage: ensure_or_update_message called again and again for one    *)
(* config key on one channel, while moderators delete messages of the      *)
(* channel.  The call is suspended at fetch_message, at edit and at send,  *)
(* so it is one step per request.  calls holds the config entry, the       *)
(* messages of the channel, the position of the call, its msg_id and the   *)
(* exception it caught; message ids are 1, 2, ... in the order of creation. *)
(***************************************************************************)
MaxMessages == 4     \* messages created in the channel in one behaviour

NoId == 0            \* get_config returns None: no row for the key

\* Config entries found at the first call: none, or the id of message 1
\* (the entry is only ever written as str(sent.id)).
StoredAtStart == {NoId, 1}

\* Where the try block around fetch_message / edit goes, a variant that
\* also recreates the message when the request is forbidden.
AfterRequest_recreate(outcome, then) ==
  CASE outcome = "ok" -> then
    [] outcome \in {"NotFound", "Forbidden"} -> "send"
    [] OTHER -> "return"

\* Where the try block around fetch_message / edit goes: on, to the send
\* after "except discord.NotFound: pass", or out of the function.
AfterRequest(outcome, then) ==
  CASE outcome = "ok" -> then
    [] outcome = "NotFound" -> "send"
    [] OTHER -> "return"

\* Discord answers NotFound for a message that is not in the channel and
\* never for one that is; a request can be forbidden or fail at any time.
Answers(id) ==
  IF id \in calls.channel THEN {"ok", "Forbidden", "HTTPException"}
  ELSE {"NotFound", "Forbidden", "HTTPException"}

\* Entry of ensure_or_update_message with a channel: msg_id = get_config().
EnsureBegin ==
  /\ calls.pc = "return"
  /\ calls' = [calls EXCEPT !.msg_id = calls.config,
                            !.caught = "",
                            !.pc = IF calls.config = NoId THEN "send" ELSE "fetch"]
  /\ out' = [op |-> "ensure_or_update_message", raised |-> ""]
  /\ UNCHANGED <<players, matches, match_players>>

\* msg = await channel.fetch_message(int(msg_id))
FetchMessage ==
  /\ calls.pc = "fetch"
  /\ \E outcome \in Answers(calls.msg_id) :
       /\ calls' = [calls EXCEPT !.pc = AfterRequest(outcome, "edit"),
                                 !.caught = IF outcome = "ok" THEN "" ELSE outcome]
       /\ out' = [op |-> "fetch_message", raised |-> IF outcome = "ok" THEN "" ELSE outcome]
  /\ UNCHANGED <<players, matches, match_players>>

\* await msg.edit(embed=embed); return
EditMessage ==
  /\ calls.pc = "edit"
  /\ \E outcome \in Answers(calls.msg_id) :
       /\ calls' = [calls EXCEPT !.pc = AfterRequest(outcome, "return"),
                                 !.caught = IF outcome = "ok" THEN "" ELSE outcome]
       /\ out' = [op |-> "edit", raised |-> IF outcome = "ok" THEN "" ELSE outcome]
  /\ UNCHANGED <<players, matches, match_players>>

\* sent = await channel.send(embed=embed); set_config(config_key, str(sent.id))
\* Either statement can raise: "except Exception" logs and the call is over.
SendMessage ==
  /\ calls.pc = "send"
  /\ \E outcome \in {"ok", "Forbidden", "HTTPException", "sqlite3.Error"} :
       /\ outcome \in {"ok", "sqlite3.Error"} => calls.created < MaxMessages
       /\ calls' = CASE outcome = "ok" ->
                          [calls EXCEPT !.pc = "return",
                                        !.created = calls.created + 1,
                                        !.channel = calls.channel \union {calls.created + 1},
                                        !.config = calls.created + 1]
                     [] outcome = "sqlite3.Error" ->
                          [calls EXCEPT !.pc = "return",
                                        !.created = calls.created + 1,
                                        !.channel = calls.channel \union {calls.created + 1}]
                     [] OTHER -> [calls EXCEPT !.pc = "return"]
       /\ out' = [op |-> "send", raised |-> IF outcome = "ok" THEN "" ELSE outcome]
  /\ UNCHANGED <<players, matches, match_players>>

\* A moderator deletes a message of the channel.
DeleteMessage ==
  /\ \E id \in calls.channel :
       calls' = [calls EXCEPT !.channel = calls.channel \ {id}]
  /\ out' = [op |-> "delete", raised |-> ""]
  /\ UNCHANGED <<players, matches, match_players>>

InitMessage ==
  /\ players = << >>
  /\ matches = << >>
  /\ match_players = << >>
  /\ out = [op |-> "init_db", raised |-> ""]
  /\ \E stored \in StoredAtStart, there \in BOOLEAN :
       calls = [ config |-> stored,
                 channel |-> IF stored = 1 /\ there THEN {1} ELSE {},
                 created |-> IF stored = 1 THEN 1 ELSE 0,
                 msg_id |-> NoId,
                 caught |-> "",
                 pc |-> "return" ]

NextMessage == EnsureBegin \/ FetchMessage \/ EditMessage \/ SendMessage \/ DeleteMessage

SpecMessage == InitMessage /\ [][NextMessage]_vars

(***************************************************************************)
(* SpecReady: on_ready events of one process.  discord.py runs every       *)
(* handler of an event as a task of its own, so the on_ready of a          *)
(* reconnect can start while an earlier one is suspended at an await.      *)
(* calls holds the attributes of bot (synced, _rp_tasks_started), the      *)
(* position of every handler, and counts of what was done.                 *)
(***************************************************************************)
MaxReady == 3        \* on_ready events in one behaviour

Handlers == 1..MaxReady

\* ensure_rp_daemons_started: there is no await between the test of the
\* flag and its assignment.
RpDaemonsStarted(c) ==
  IF ~c._rp_tasks_started
  THEN [c EXCEPT !.firecamp_tasks = @ + 1, !.radio_tasks = @ + 1, !._rp_tasks_started = TRUE]
  ELSE c

\* on_ready starts: "if not bot.synced" is followed by the await of
\* bot.tree.sync().
OnReadyBegin(h) ==
  /\ calls.pc[h] = "waiting"
  /\ calls' = [calls EXCEPT !.pc[h] = IF ~calls.synced THEN "sync" ELSE "setup"]
  /\ out' = [op |-> "on_ready", handler |-> h]
  /\ UNCHANGED <<players, matches, match_players>>

\* await bot.tree.sync() returns and bot.synced = True, or the request
\* raises and the handler is over.
TreeSync(h) ==
  /\ calls.pc[h] = "sync"
  /\ \E ok \in BOOLEAN :
       calls' = IF ok
                THEN [calls EXCEPT !.pc[h] = "setup", !.synced = TRUE, !.syncs = @ + 1]
                ELSE [calls EXCEPT !.pc[h] = "done"]
  /\ out' = [op |-> "sync", handler |-> h]
  /\ UNCHANGED <<players, matches, match_players>>

\* The channel messages (each one awaited) and then
\* ensure_rp_daemons_started(); without a guild, or when a request of the
\* setup raises, the handler returns before it.
SetupAndDaemons(h) ==
  /\ calls.pc[h] = "setup"
  /\ \E reached \in BOOLEAN :
       calls' = IF reached
                THEN [RpDaemonsStarted(calls) EXCEPT !.pc[h] = "done"]
                ELSE [calls EXCEPT !.pc[h] = "done"]
  /\ out' = [op |-> "ensure_rp_daemons_started", handler |-> h]
  /\ UNCHANGED <<players, matches, match_players>>

InitReady ==
  /\ players = << >>
  /\ matches = << >>
  /\ match_players = << >>
  /\ out = [op |-> "init_db", handler |-> 0]
  /\ calls = [ synced |-> FALSE, _rp_tasks_started |-> FALSE,
               syncs |-> 0, firecamp_tasks |-> 0, radio_tasks |-> 0,
               pc |-> [h \in Handlers |-> "waiting"] ]

NextReady == \E h \in Handlers : OnReadyBegin(h) \/ TreeSync(h) \/ SetupAndDaemons(h)

SpecReady == InitReady /\ [][NextReady]_vars

(***************************************************************************)
(* Properties of one settlement.  A step that leaves out.op =              *)
(* "finalize_match" is one finalize_match call with the arguments          *)
(* out'.args; the unprimed tables are the database before the call.        *)
(***************************************************************************)
\* The rows of a players table that carry this minecraft name.
RowsNamed(ps, name) == {i \in 1..Len(ps) : ps[i].minecraft_name = name}

\* The registered player a participant name resolves to.
Resolved(ps, name) ==
  ps[CHOOSE i \in RowsNamed(ps, name) : \A j \in RowsNamed(ps, name) : j <= i]

\* The participants of a call that resolve to a player with the ranked flag
\* on, to a player with the ranked flag off, and to no player.
RankedOf(ps, a) ==
  {n \in Range(a.players) : RowsNamed(ps, n) # {} /\ Resolved(ps, n).active_ranked = 1}

ChillOf(ps, a) ==
  {n \in Range(a.players) : RowsNamed(ps, n) # {} /\ Resolved(ps, n).active_ranked = 0}

UnknownOf(ps, a) == {n \in Range(a.players) : RowsNamed(ps, n) = {}}

\* The participation rows (their positions) of one match and one player.
Participations(mps, match_id, discord_id) ==
  {i \in 1..Len(mps) : mps[i].match_id = match_id /\ mps[i].discord_id = discord_id}

\* The role a participant is settled under, and the delta computed for it.
RoleOf(a, name) == Get(a.roles, name, "humain")

Delta(a, name) ==
  calculate_mmr(RoleOf(a, name), Winner(a.roles), RoleOf(a, name) = "humain",
                Get(a.kills, name, 0), 0, Get(a.dmg, name, 0), 0, a.scenarios, a.map_name)

\* The last row of the matches table.
LastMatch(ms) == ms[Len(ms)]

\* C3: every finalize_match call appends exactly one row to matches, with
\* the winner computed from the role assignment, also when the participant
\* list is empty or no name resolves; in that case the players table and
\* the match_players table are left as they were.
C3_OneMatchRow ==
  [][ out'.op = "finalize_match" =>
        /\ Len(matches') = Len(matches) + 1
        /\ SubSeq(matches', 1, Len(matches)) = matches
        /\ LastMatch(matches').winner = Winner(out'.args.roles)
        /\ (UnknownOf(players, out'.args) = Range(out'.args.players)
              => players' = players /\ match_players' = match_players) ]_vars

\* A call whose only participant is unknown has left one match and nothing else.
C3_Witness ==
  /\ out.op = "finalize_match"
  /\ out.args.players # << >>
  /\ UnknownOf(players, out.args) = Range(out.args.players)
  /\ Len(matches) = 1
  /\ match_players = << >>

\* C4: the winner stored for the match is "humains" if and only if at least
\* one participant of the call holds the role "humain" (the role the call
\* settles that participant under), and "zombies" otherwise.
C4_WinnerIffHumanParticipant ==
  out.op = "finalize_match" =>
    /\ LastMatch(matches).winner \in {"humains", "zombies"}
    /\ LastMatch(matches).winner = "humains"
         <=> \E n \in Range(out.args.players) : RoleOf(out.args, n) = "humain"

\* C5: a participant that resolves to a ranked player has the computed delta
\* added to the stored mmr, last_change set to it, and exactly one new
\* match_players row of this match and player, carrying the same delta.
C5_DeltaApplied ==
  [][ out'.op = "finalize_match" =>
        \A n \in RankedOf(players, out'.args) :
          LET id     == Resolved(players, n).discord_id
              before == fetch_player(players, id)
              after  == fetch_player(players', id)
              rows   == Participations(match_players', LastMatch(matches').match_id, id)
          IN /\ after.mmr = before.mmr + Delta(out'.args, n)
             /\ after.last_change = Delta(out'.args, n)
             /\ Cardinality(rows) = 1
             /\ \A r \in rows : /\ r > Len(match_players)
                                /\ match_players'[r].mmr_change = Delta(out'.args, n) ]_vars

\* A ranked participant was settled with a delta other than zero.
C5_Witness ==
  /\ out.op = "finalize_match"
  /\ \E n \in RankedOf(players, out.args) :
       /\ Delta(out.args, n) # 0
       /\ Resolved(players, n).last_change = Delta(out.args, n)
       /\ \E r \in 1..Len(match_players) :
            /\ match_players[r].discord_id = Resolved(players, n).discord_id
            /\ match_players[r].mmr_change = Delta(out.args, n)

\* C6: a participant whose ranked flag is off keeps its whole players row
\* (mmr, last_change, every counter), whatever role, kills and damage the
\* call carries for it.
C6_ChillUnchanged ==
  [][ out'.op = "finalize_match" =>
        \A n \in ChillOf(players, out'.args) :
          fetch_player(players', Resolved(players, n).discord_id)
            = fetch_player(players, Resolved(players, n).discord_id) ]_vars

\* A chill participant went through a call that carried a role, kills and
\* damage for it which would have moved the mmr of a ranked player.
C6_Witness ==
  /\ out.op = "finalize_match"
  /\ \E n \in ChillOf(players, out.args) :
       /\ n \in DOMAIN out.args.roles
       /\ out.args.kills[n] > 0
       /\ out.args.dmg[n] > 0
       /\ Delta(out.args, n) # 0
       /\ Resolved(players, n).mmr = 1000

WithoutUnknown(ps, a) ==
  [a EXCEPT !.players = SelectRows(@, {i \in 1..Len(@) : RowsNamed(ps, @[i]) # {}})]

\* C8: a name that matches no registered player does not make the call
\* fail, and the call leaves the three tables, the summary lines and the
\* rank alerts exactly as the same call without that name in its list does;
\* no match_players row is written under the unknown name.
C8_UnknownSkipped ==
  [][ out'.op = "finalize_match" =>
        \A same \in {Transaction(Db, name_to_data(players),
                                  WithoutUnknown(players, out'.args), 0)} :
          /\ ~out'.raised
          /\ players' = same.db.players
          /\ matches' = same.db.matches
          /\ match_players' = same.db.match_players
          /\ out'.lines = same.lines
          /\ out'.alerts = same.alerts
          /\ Len(match_players') - Len(match_players)
               = Cardinality(RankedOf(players, out'.args))
          /\ \A i \in 1..Len(out'.lines) :
               out'.lines[i].name \notin UnknownOf(players, out'.args) ]_vars

\* A call with an unknown name and a ranked participant ended, and settled
\* the ranked participant.
C8_Witness ==
  /\ out.op = "finalize_match"
  /\ UnknownOf(players, out.args) # {}
  /\ \E n \in RankedOf(players, out.args) :
       /\ Len(match_players) = 1
       /\ match_players[1].discord_id = Resolved(players, n).discord_id
       /\ out.lines = <<[ kind |-> "settled", name |-> n, role |-> RoleOf(out.args, n),
                          survivor |-> (RoleOf(out.args, n) = "humain"),
                          kills |-> out.args.kills[n], dmg |-> out.args.dmg[n],
                          change |-> Delta(out.args, n) ]>>

\* The players rows a call settles: those its ranked participants resolve to.
SettledIds(ps, a) == {Resolved(ps, n).discord_id : n \in RankedOf(ps, a)}

\* C9: for a settled participant, with the role and survivor flag of its
\* participation row and the winner of the match row, wins_humain grows by
\* one iff humain, humains won and survivor; wins_zombie by one iff firstz
\* and zombies won; losses by one iff humain and zombies won, or infected or
\* firstz and humains won; each is unchanged otherwise, and for every player
\* the call does not settle.
C9_WinLossCredits ==
  [][ out'.op = "finalize_match" =>
        LET m == LastMatch(matches') IN
        \A p \in 1..Len(players) :
          LET before == players[p]
              after  == fetch_player(players', before.discord_id)
              rows   == Participations(match_players', m.match_id, before.discord_id)
          IN IF before.discord_id \in SettledIds(players, out'.args)
             THEN rows # {} /\ \A r \in rows :
                    LET row == match_players'[r] IN
                    /\ after.wins_humain - before.wins_humain =
                         (IF row.role = "humain" /\ m.winner = "humains" /\ row.survivor = 1
                          THEN 1 ELSE 0)
                    /\ after.wins_zombie - before.wins_zombie =
                         (IF row.role = "firstz" /\ m.winner = "zombies" THEN 1 ELSE 0)
                    /\ after.losses - before.losses =
                         (IF \/ row.role = "humain" /\ m.winner = "zombies"
                             \/ row.role \in {"firstz", "infected"} /\ m.winner = "humains"
                          THEN 1 ELSE 0)
             ELSE /\ after.wins_humain = before.wins_humain
                  /\ after.wins_zombie = before.wins_zombie
                  /\ after.losses = before.losses ]_vars

\* Each of the three credits has been given, and a settled infected player
\* of a match the zombies won has none.
C9_Witness ==
  /\ \E p \in 1..Len(players) : players[p].wins_humain = 1
  /\ \E p \in 1..Len(players) : players[p].wins_zombie = 1 /\ players[p].losses = 1
  /\ \E r \in 1..Len(match_players) :
       /\ match_players[r].role = "infected"
       /\ matches[match_players[r].match_id].winner = "zombies"

\* C10: the names a call sends a rank alert for are exactly its ranked
\* participants whose rank at the stored mmr before the call differs from
\* the rank at that mmr plus the delta, one alert each; none is sent for an
\* unknown or a chill participant.
C10_RankAlerts ==
  [][ out'.op = "finalize_match" =>
        LET a       == out'.args
            crossing == {n \in RankedOf(players, a) :
                           get_rank(Resolved(players, n).mmr)
                             # get_rank(Resolved(players, n).mmr + Delta(a, n))}
        IN /\ {out'.alerts[i].name : i \in 1..Len(out'.alerts)} = crossing
           /\ Len(out'.alerts) = Cardinality(crossing) ]_vars

\* A call sent an alert for one ranked participant and none for another
\* ranked participant, nor for the chill or unknown names of an earlier call.
C10_Witness ==
  /\ out.op = "finalize_match"
  /\ Len(out.alerts) = 1
  /\ Cardinality(RankedOf(players, out.args)) = 2
  /\ \E n \in RankedOf(players, out.args) :
       /\ out.alerts[1].name = n
       /\ Delta(out.args, n) > 0
       /\ Resolved(players, n).mmr >= 1000
       /\ Resolved(players, n).mmr - Delta(out.args, n) < 1000

(***************************************************************************)
(* Properties of two calls on two connections (SpecConc).                  *)
(***************************************************************************)
\* The delta a call computes for the player discord_id, 0 when the call
\* does not settle that player.
DeltaFor(ps, a, discord_id) ==
  IF discord_id \in SettledIds(ps, a)
  THEN Delta(a, CHOOSE n \in RankedOf(ps, a) : Resolved(ps, n).discord_id = discord_id)
  ELSE 0

\* The players table as /register left it, before any call.
AtStart(ps) == [i \in 1..Len(ps) |-> NewPlayer(ps[i].discord_id, ps[i].minecraft_name)]

\* The database after call a, then call b, each run alone from its SELECT
\* to its COMMIT, from the database the registrations left.
OneAfterTheOther(ps, a, b) ==
  LET start == [players |-> [i \in 1..Len(ps) |-> [AtStart(ps)[i] EXCEPT !.active_ranked = ps[i].active_ranked]],
                matches |-> << >>, match_players |-> << >>]
      first == Transaction(start, name_to_data(start.players), a, 0).db
  IN Transaction(first, name_to_data(first.players), b, 0).db

BothDone == \A c \in Conns : calls[c].pc = "done"

\* C1: when the two calls have ended, in whatever order their SELECTs and
\* their writes were interleaved, the mmr of every player is the starting
\* mmr plus the deltas of the calls that settle it (both deltas for a player
\* both settle); and when the two calls settle disjoint sets of players, the
\* players table is the one that either sequential order of the two leaves.
C1_NoLostUpdate ==
  BothDone =>
    /\ \A p \in 1..Len(players) :
         players[p].mmr = AtStart(players)[p].mmr
                            + DeltaFor(players, calls[1].args, players[p].discord_id)
                            + DeltaFor(players, calls[2].args, players[p].discord_id)
    /\ SettledIds(players, calls[1].args) \cap SettledIds(players, calls[2].args) = {}
         => /\ players = OneAfterTheOther(players, calls[1].args, calls[2].args).players
            /\ players = OneAfterTheOther(players, calls[2].args, calls[1].args).players

\* Both calls did their SELECT before either wrote, both settled the same
\* player with a delta other than zero, and both have ended.
C1_Witness ==
  /\ BothDone
  /\ calls[1].snapshot = calls[2].snapshot
  /\ \E id \in SettledIds(players, calls[1].args) \cap SettledIds(players, calls[2].args) :
       /\ DeltaFor(players, calls[1].args, id) # 0
       /\ DeltaFor(players, calls[2].args, id) # 0
       /\ fetch_player(players, id).mmr # 1000

(***************************************************************************)
(* Properties of a call in which a write fails (SpecFail).                 *)
(***************************************************************************)
\* C2: a call in which a write statement fails ends with the exception at
\* its caller (no summary is produced) and leaves the three tables exactly
\* as they were before the call: no match row, no participation row, no
\* change of any players row.
C2_FailureLeavesNoWrite ==
  [][ (out'.op = "finalize_match" /\ out'.raised) =>
        /\ out'.lines = << >>
        /\ matches' = matches
        /\ match_players' = match_players
        /\ players' = players ]_vars

\* A call failed at a write of its second ranked participant, after the
\* match row and the two rows of the first participant had been written,
\* on a database that held an earlier match.
C2_Witness ==
  /\ Failed
  /\ Len(out.alerts) = 2
  /\ Cardinality(RankedOf(players, out.args)) = 2
  /\ Len(matches) = 1
  /\ Len(match_players) >= 1

(***************************************************************************)
(* Properties of the season reset and of registration (SpecLife).          *)
(***************************************************************************)
\* The largest season_id of a players table, read off the rows.
TopSeason(ps) ==
  CHOOSE m \in {ps[i].season_id : i \in 1..Len(ps)} : \A i \in 1..Len(ps) : ps[i].season_id <= m

\* The cumulative counters of a players row are all zero.
CountersZero(row) ==
  /\ row.wins_humain = 0 /\ row.wins_zombie = 0 /\ row.losses = 0
  /\ row.kills_zombie = 0 /\ row.kills_humain = 0
  /\ row.assists = 0 /\ row.dmg_dealt = 0

\* C11: after /resetseason every player that existed before it has mmr
\* 1000, last_change 0, every counter 0 and as season_id the largest
\* season_id of the table before the reset plus one.
C11_ResetRows ==
  [][ out'.op = "resetseason" =>
        /\ Len(players') = Len(players)
        /\ \A i \in 1..Len(players) :
             /\ players'[i].discord_id = players[i].discord_id
             /\ players'[i].mmr = 1000
             /\ players'[i].last_change = 0
             /\ CountersZero(players'[i])
             /\ players'[i].season_id = TopSeason(players) + 1 ]_vars

\* A second reset ran on two players after two matches, the second of
\* which had moved a player that is still registered.
C11_Witness ==
  /\ out.op = "resetseason"
  /\ out.new_season = 3
  /\ Len(players) = 2
  /\ \A i \in 1..Len(players) : players[i].season_id = 3 /\ players[i].mmr = 1000
  /\ \E r \in 1..Len(match_players) :
       /\ match_players[r].mmr_change # 0
       /\ match_players[r].match_id = 2
       /\ HasPlayer(players, match_players[r].discord_id)

\* C12: /resetseason keeps the number and order of the players rows, the
\* discord_id, minecraft_name and active_ranked of each, and the matches
\* and match_players tables.
C12_ResetFrame ==
  [][ out'.op = "resetseason" =>
        /\ Len(players') = Len(players)
        /\ \A i \in 1..Len(players) :
             /\ players'[i].discord_id = players[i].discord_id
             /\ players'[i].minecraft_name = players[i].minecraft_name
             /\ players'[i].active_ranked = players[i].active_ranked
        /\ matches' = matches
        /\ match_players' = match_players ]_vars

\* A reset ran on a table with a chill player, after a match.
C12_Witness ==
  /\ out.op = "resetseason"
  /\ \E i \in 1..Len(players) : players[i].active_ranked = 0 /\ players[i].season_id = 2
  /\ \E i \in 1..Len(players) : players[i].active_ranked = 1
  /\ Len(matches) >= 1
  /\ Len(match_players) >= 1

\* C13: the players row a successful /register has just created has mmr
\* 1000, every counter 0 and the current season as season_id: the largest
\* season_id of the other rows, which is then the largest of the table, and
\* 1 when there is no other row.
C13_RegisteredInCurrentSeason ==
  (out.op = "register" /\ out.created) =>
    LET row == fetch_player(players, out.discord_id) IN
      /\ row.mmr = 1000
      /\ CountersZero(row)
      /\ row.season_id = TopSeason(players)
      /\ Len(players) = 1 => row.season_id = 1

\* Some connection commits the UPDATE of a /resetseason in this step.
ResetCommits ==
  \E c \in Conns : calls[c].pc = "reset_selected" /\ calls'[c].pc = "reset_done"

\* Some row that existed before the step carries another season_id after it.
SeasonMoves ==
  \E i \in 1..Len(players) : players'[i].season_id # players[i].season_id

\* Some connection finishes a /leaderboard in this step.
BoardAnswers ==
  \E c \in Conns : calls[c].pc = "board_selected" /\ calls'[c].pc = "board_done"

\* C14: /resetseason is all-or-nothing next to concurrent registrations,
\* settlements and readers: the step in which a reset becomes visible, and
\* any step that moves the season_id of a row, leaves every row of the table
\* (rows registered or settled since the reset read the season included)
\* with the one new season_id, mmr 1000, last_change 0 and counters 0, and
\* adds or removes no row; the rows a /leaderboard shows are exactly the
\* rows of one season of the committed table.
C14_ResetAllOrNothing ==
  [][ /\ (ResetCommits \/ SeasonMoves) =>
           /\ out'.op = "resetseason"
           /\ Len(players') = Len(players)
           /\ \A i \in 1..Len(players') :
                /\ players'[i].season_id = out'.new_season
                /\ players'[i].mmr = 1000
                /\ players'[i].last_change = 0
                /\ CountersZero(players'[i])
      /\ BoardAnswers =>
           /\ out'.op = "leaderboard"
           /\ Len(out'.rows) = Cardinality({i \in 1..Len(players) :
                                              players[i].season_id = out'.season})
           /\ \A k \in 1..Len(out'.rows) :
                \E i \in 1..Len(players) :
                  /\ players[i].season_id = out'.season
                  /\ players[i].minecraft_name = out'.rows[k].minecraft_name
                  /\ players[i].mmr = out'.rows[k].mmr
    ]_vars

\* A reset has just committed on two players while a settlement that read
\* the table before it (one row away from 1000) has not yet written.
C14_Witness ==
  /\ out.op = "resetseason"
  /\ Len(players) = 2
  /\ \A i \in 1..Len(players) :
       players[i].season_id = out.new_season /\ players[i].mmr = 1000
  /\ \E c, d \in Conns :
       /\ calls[c].pc = "reset_done"
       /\ calls[d].pc = "selected"
       /\ \E n \in DOMAIN calls[d].snapshot : calls[d].snapshot[n].mmr # 1000

\* C15: no step lowers the season_id of a players row that is there before
\* and after the step.
C15_SeasonNeverDecreases ==
  [][ \A i \in 1..Len(players), j \in 1..Len(players') :
        players'[j].discord_id = players[i].discord_id
          => players'[j].season_id >= players[i].season_id ]_vars

\* A player has been through two resets, a settlement since the last one
\* and /ranked_off.
C15_Witness ==
  \E i \in 1..Len(players) :
    /\ players[i].season_id = 3
    /\ players[i].active_ranked = 0
    /\ players[i].last_change # 0

\* C16: /register by a discord_id that has a players row answers created =
\* FALSE and leaves the three tables as they were.
C16_DuplicateRegistration ==
  [][ (out'.op = "register" /\ HasPlayer(players, out'.discord_id)) =>
        /\ out'.created = FALSE
        /\ players' = players
        /\ matches' = matches
        /\ match_players' = match_players ]_vars

\* A registered player whose mmr has moved and who is chill registered again
\* under another minecraft name and was refused.
C16_Witness ==
  /\ out.op = "register"
  /\ ~out.created
  /\ HasPlayer(players, out.discord_id)
  /\ fetch_player(players, out.discord_id).minecraft_name # out.minecraft_name
  /\ fetch_player(players, out.discord_id).mmr # 1000
  /\ fetch_player(players, out.discord_id).active_ranked = 0
  /\ fetch_player(players, out.discord_id).season_id = 2

\* C17: every step keeps every row of matches and of match_players as it
\* is, at its place; rows are only added after them.
C17_HistoryImmutable ==
  [][ /\ Len(matches') >= Len(matches)
      /\ SubSeq(matches', 1, Len(matches)) = matches
      /\ Len(match_players') >= Len(match_players)
      /\ SubSeq(match_players', 1, Len(match_players)) = match_players ]_vars

\* A match with its participation rows has been followed by a reset, an
\* unlink of one of its players, a toggle and another settlement.
C17_Witness ==
  /\ Len(matches) = 2
  /\ \E r \in 1..Len(match_players) :
       /\ match_players[r].match_id = 1
       /\ ~HasPlayer(players, match_players[r].discord_id)
  /\ \E r \in 1..Len(match_players) : match_players[r].match_id = 2
  /\ \E i \in 1..Len(players) : players[i].season_id = 2 /\ players[i].active_ranked = 0

\* C18: /unlink removes the players row of the identity and nothing else;
\* a settlement writes no participation row for an identity without a
\* players row; /register by an identity without a row creates one with
\* mmr 1000, last_change 0 and zero counters; and the match_players rows of
\* the unlinked identity stay.
C18_Unlink ==
  [][ /\ out'.op = "unlink" =>
           /\ ~HasPlayer(players', out'.discord_id)
           /\ players' = SelectRows(players, {i \in 1..Len(players) :
                                                players[i].discord_id # out'.discord_id})
           /\ matches' = matches
           /\ match_players' = match_players
      /\ out'.op = "finalize_match" =>
           \A r \in (Len(match_players) + 1)..Len(match_players') :
             HasPlayer(players, match_players'[r].discord_id)
      /\ (out'.op = "register" /\ ~HasPlayer(players, out'.discord_id)) =>
           /\ out'.created
           /\ HasPlayer(players', out'.discord_id)
           /\ fetch_player(players', out'.discord_id).mmr = 1000
           /\ fetch_player(players', out'.discord_id).last_change = 0
           /\ CountersZero(fetch_player(players', out'.discord_id))
           /\ match_players' = match_players ]_vars

\* An identity settled in the first match was unlinked, was left out of the
\* second match and has just registered again: its row is fresh and its
\* participation row of the first match is still there.
C18_Witness ==
  /\ out.op = "register" /\ out.created
  /\ fetch_player(players, out.discord_id).mmr = 1000
  /\ \A i \in 1..Len(players) : players[i].season_id = 1
  /\ Len(matches) = 2
  /\ \E r \in 1..Len(match_players) :
       /\ match_players[r].discord_id = out.discord_id
       /\ match_players[r].match_id = 1
       /\ match_players[r].mmr_change # 0
  /\ \A r \in 1..Len(match_players) :
       match_players[r].match_id = 2 => match_players[r].discord_id # out.discord_id

(***************************************************************************)
(* Properties of get_rank (SpecRank).                                      *)
(***************************************************************************)
\* The lowest threshold of RANKS apart from the fallback entry, its last.
LowestThreshold ==
  CHOOSE t \in {RANKS[i].threshold : i \in 1..(Len(RANKS) - 1)} :
    \A i \in 1..(Len(RANKS) - 1) : t <= RANKS[i].threshold

\* C19: for an mmr at or above the lowest threshold, get_rank returns the
\* name of the entry with the highest threshold that is <= mmr.
C19_HighestThreshold ==
  (out.op = "get_rank" /\ out.mmr >= LowestThreshold) =>
    \E i \in 1..Len(RANKS) :
      /\ out.rank = RANKS[i].name
      /\ RANKS[i].threshold <= out.mmr
      /\ \A j \in 1..Len(RANKS) :
           RANKS[j].threshold <= out.mmr => RANKS[j].threshold <= RANKS[i].threshold

\* get_rank was given an mmr equal to a threshold and returned its name.
C19_Witness ==
  /\ out.op = "get_rank"
  /\ out.mmr = 1500
  /\ out.rank = "Zombie"

\* C20: get_rank returns a name of RANKS for every mmr, and the name of the
\* fallback entry for every mmr below the lowest threshold, also below the
\* threshold of the fallback entry itself.
C20_Total ==
  out.op = "get_rank" =>
    /\ \E i \in 1..Len(RANKS) : out.rank = RANKS[i].name
    /\ out.mmr < LowestThreshold => out.rank = RANKS[Len(RANKS)].name

\* get_rank was given an mmr below the threshold of the fallback entry.
C20_Witness ==
  /\ out.op = "get_rank"
  /\ out.mmr < Fallback
  /\ out.rank = "Novice"


\* The tiers the bot publishes in the ranks channel (on_ready) and uses for
\* the progress bar of /card: name, lowest and highest mmr; Alpha-Z is
\* published as "2500+".
PublishedTiers ==
  << [name |-> "Survivant",  min |-> 0,    max |-> 999],
     [name |-> "Zombie",     min |-> 1000, max |-> 1499],
     [name |-> "Mutant",     min |-> 1500, max |-> 1999],
     [name |-> "Apocalypse", min |-> 2000, max |-> 2499],
     [name |-> "Alpha-Z",    min |-> 2500, max |-> 2500 + MaxRankOffset] >>

\* C21: get_rank classifies an mmr into the five published tiers: 0-999
\* Survivant, 1000-1499 Zombie, 1500-1999 Mutant, 2000-2499 Apocalypse,
\* 2500 and above Alpha-Z.
C21_PublishedTiers ==
  out.op = "get_rank" =>
    \A i \in 1..Len(PublishedTiers) :
      (PublishedTiers[i].min <= out.mmr /\ out.mmr <= PublishedTiers[i].max)
        => out.rank = PublishedTiers[i].name

(***************************************************************************)
(* Properties of calculate_mmr (SpecMmr).                                  *)
(***************************************************************************)
\* calculate_mmr has returned for a call without scenario and without map.
Unweighted == out.op = "calculate_mmr" /\ out.scenarios = << >> /\ out.map_name = ""

\* C22: for the role humain without scenario and map, calculate_mmr returns
\* (30 if the humans won and the player survived, else 10 if the player
\* survived, else 0) + 2 * kills + assists + min(survival_time div 20, 10)
\* - 15 if the zombies won; a surviving winner with no kill, assist and
\* survival time gets exactly 30.
C22_HumanBase ==
  (Unweighted /\ out.role = "humain") =>
    /\ out.result =
         (IF out.winner = "humains" /\ out.is_survivor THEN 30
          ELSE IF out.is_survivor THEN 10 ELSE 0)
         + 2 * out.kills + out.assists
         + (IF out.survival_time \div 20 < 10 THEN out.survival_time \div 20 ELSE 10)
         + (IF out.winner = "zombies" THEN -15 ELSE 0)
    /\ (/\ out.winner = "humains" /\ out.is_survivor
        /\ out.kills = 0 /\ out.assists = 0 /\ out.survival_time = 0) => out.result = 30

\* A human who survived a lost match beyond the cap of the survival time,
\* with kills and assists.
C22_Witness ==
  /\ Unweighted /\ out.role = "humain"
  /\ out.winner = "zombies" /\ out.is_survivor
  /\ out.kills = 2 /\ out.assists = 3 /\ out.survival_time = 400
  /\ out.result = 12

\* C23: for the role infected without scenario and map, calculate_mmr
\* returns -5 + 3 * kills + (min(dmg, 100) div 15), whatever the winner, the
\* assists, the survival time and the survivor flag: 3 for 2 kills and 40
\* damage, and a damage of 100 or more contributes exactly 6.
C23_InfectedBase ==
  (Unweighted /\ out.role = "infected") =>
    /\ out.result = -5 + 3 * out.kills
                    + ((IF out.dmg < 100 THEN out.dmg ELSE 100) \div 15)
    /\ (out.kills = 2 /\ out.dmg = 40) => out.result = 3
    /\ out.dmg >= 100 => out.result = -5 + 3 * out.kills + 6

\* An infected on the losing side with damage beyond the cap, and with
\* assists and survival time that do not count.
C23_Witness ==
  /\ Unweighted /\ out.role = "infected"
  /\ out.winner = "humains" /\ out.assists = 3 /\ out.survival_time = 400
  /\ out.kills = 1 /\ out.dmg = 250
  /\ out.result = 4

\* C24: for the role firstz without scenario and map, calculate_mmr returns
\* (25 if the zombies won, else -15) + 3 * kills, whatever the damage, the
\* assists, the survival time and the survivor flag.
C24_FirstInfectedBase ==
  (Unweighted /\ out.role = "firstz") =>
    out.result = (IF out.winner = "zombies" THEN 25 ELSE -15) + 3 * out.kills

\* A first infected who lost, with damage, assists, survival time and the
\* survivor flag set.
C24_Witness ==
  /\ Unweighted /\ out.role = "firstz"
  /\ out.winner = "humains" /\ out.is_survivor
  /\ out.dmg = 250 /\ out.assists = 3 /\ out.survival_time = 400
  /\ out.kills = 2
  /\ out.result = -9

\* The base of the call in out.
BaseOfCall ==
  BaseMmr(out.role, out.winner, out.is_survivor, out.kills, out.assists, out.dmg,
          out.survival_time)

\* The sum of the balance scores of the selected scenarios.
ScoreSum == SumSeq([i \in 1..Len(out.scenarios) |-> ScenarioScore(out.scenarios[i])])

\* The mean of the scores favours the side that lost.
FavoursLoser ==
  \/ ScoreSum > 0 /\ out.winner = "zombies"
  \/ ScoreSum < 0 /\ out.winner = "humains"

\* 1 + |mean| / 20 in floating point.
MeanFactor ==
  FloatAdd(FloatOf(1), FloatDiv(FloatDiv(FloatOf(Abs(ScoreSum)), Len(out.scenarios)), 20))

\* The magnitude of the running value after the scenario adjustment.
AfterScenarios ==
  IF FavoursLoser THEN FloatMul(FloatOf(Abs(BaseOfCall)), MeanFactor)
  ELSE FloatOf(Abs(BaseOfCall))

\* n with the sign of the base.
Signed(n) == IF BaseOfCall < 0 THEN -n ELSE n

\* C25: without a map, calculate_mmr returns the base multiplied by
\* 1 + |mean| / 20 (mean: the arithmetic mean of the scores of the selected
\* scenarios) exactly when mean > 0 and the zombies won or mean < 0 and the
\* humans won; otherwise (a mean of 0 and no selection included) it returns
\* the base, whatever the winner.  The product is the floating point one: it
\* is the exact product base * (20 * n + |sum|) / (20 * n) cut to an
\* integer, except that an exact product that is an integer can come out
\* one nearer to zero.
C25_ScenarioAdjustment ==
  (out.op = "calculate_mmr" /\ out.map_name = "") =>
    IF FavoursLoser
    THEN /\ out.result = Signed(FloatInt(FloatMul(FloatOf(Abs(BaseOfCall)), MeanFactor)))
         /\ \E n \in {Len(out.scenarios)} :
              \E exact \in {TruncDiv(BaseOfCall * (20 * n + Abs(ScoreSum)), 20 * n)} :
                /\ Abs(out.result) \in {Abs(exact), Abs(exact) - 1}
                /\ (BaseOfCall * (20 * n + Abs(ScoreSum))) % (20 * n) # 0
                     => out.result = exact
    ELSE out.result = BaseOfCall

\* Two scenarios of mean -2.5 and a win of the humans: the base 34 of a
\* surviving human with 2 kills is multiplied by 1.125, 38.25 gives 38.
C25_Witness ==
  /\ out.op = "calculate_mmr" /\ out.map_name = ""
  /\ out.scenarios = <<"NoHeal", "Punch">>
  /\ out.role = "humain" /\ out.winner = "humains" /\ out.is_survivor
  /\ out.kills = 2 /\ out.assists = 0 /\ out.survival_time = 0
  /\ out.result = 38

\* The size of the map of the call: "" for no map and for a name that is
\* not in the catalog.
SizeOfMap == IF out.map_name \in DOMAIN MAPS THEN MAPS[out.map_name] ELSE ""

\* The map favours the side that lost / the side that won.
MapAgainstWinner ==
  \/ SizeOfMap = "small" /\ out.winner = "humains"
  \/ SizeOfMap = "large" /\ out.winner = "zombies"

MapForWinner ==
  \/ SizeOfMap = "small" /\ out.winner = "zombies"
  \/ SizeOfMap = "large" /\ out.winner = "humains"

\* C26: the running value is multiplied by 1.05 when the humans win on a
\* small map or the zombies on a large one, by 0.95 when the zombies win on
\* a small map or the humans on a large one, and left alone for a mid-size
\* map, an unknown map and no map; this comes after the scenario adjustment
\* and before the cut to an integer.  Without a scenario adjustment the
\* result is base * 105 / 100 (or 95 / 100) cut to an integer.
C26_MapAdjustment ==
  out.op = "calculate_mmr" =>
    /\ MapAgainstWinner =>
         /\ out.result = Signed(FloatInt(FloatMul(AfterScenarios, Float_1_05)))
         /\ ~FavoursLoser => out.result = TruncDiv(BaseOfCall * 105, 100)
    /\ MapForWinner =>
         /\ out.result = Signed(FloatInt(FloatMul(AfterScenarios, Float_0_95)))
         /\ ~FavoursLoser => out.result = TruncDiv(BaseOfCall * 95, 100)
    /\ (~MapAgainstWinner /\ ~MapForWinner) =>
         out.result = Signed(FloatInt(AfterScenarios))

\* The humans win on a small map under a scenario that favoured the
\* zombies: the base 34 of a surviving human with 2 kills times 1.15 times
\* 1.05 is 41.055, which gives 41 (cut before the map factor, 39 * 1.05
\* would give 40).
C26_Witness ==
  /\ out.op = "calculate_mmr"
  /\ out.map_name = "Vertigo" /\ out.winner = "humains"
  /\ out.scenarios = <<"NoHeal">>
  /\ out.role = "humain" /\ out.is_survivor
  /\ out.kills = 2 /\ out.assists = 0 /\ out.survival_time = 0
  /\ out.result = 41

\* The magnitude of the running value when calculate_mmr returns.
AfterMap ==
  IF MapAgainstWinner THEN FloatMul(AfterScenarios, Float_1_05)
  ELSE IF MapForWinner THEN FloatMul(AfterScenarios, Float_0_95)
  ELSE AfterScenarios

\* a <= b on long natural numbers.
LongLessEq(a, b) ==
  \E x \in {Strip(a)} : \E y \in {Strip(b)} :
    \/ Len(x) < Len(y)
    \/ /\ Len(x) = Len(y)
       /\ \/ x = y
          \/ \E i \in 1..Len(x) : x[i] < y[i] /\ \A j \in 1..(i - 1) : x[j] = y[j]

\* n <= x for an integer n >= 0 and the magnitude x of a float.
AtMost(n, x) ==
  IF x.e >= 0 THEN LongLessEq(Digits(n), ShiftLeft(x.m, x.e))
  ELSE LongLessEq(ShiftLeft(Digits(n), -x.e), x.m)

\* C27: calculate_mmr returns the weighted value cut toward zero: a positive
\* value v gives the largest integer <= v, a negative value v the smallest
\* integer >= v (the result has the sign of v, or is 0, and its magnitude k
\* satisfies k <= |v| < k + 1); it is neither rounded nor floored.
C27_TruncatedTowardZero ==
  out.op = "calculate_mmr" =>
    \E v \in {AfterMap} :
      /\ BaseOfCall >= 0 => out.result >= 0
      /\ BaseOfCall <= 0 => out.result <= 0
      /\ AtMost(Abs(out.result), v)
      /\ ~AtMost(Abs(out.result) + 1, v)

\* The weighted value 100 * 1.15 is 114.99999999999999 in floating point:
\* its nearest integer is 115, the result is 114.
C27_Witness ==
  /\ out.op = "calculate_mmr" /\ out.map_name = ""
  /\ out.scenarios = <<"NoHeal">>
  /\ out.role = "humain" /\ out.winner = "humains" /\ out.is_survivor
  /\ out.kills = MaxKills /\ out.assists = 0 /\ out.survival_time = 0
  /\ BaseOfCall = 100
  /\ out.result = 114

\* The selection of the call with every name that is not in the catalog
\* replaced by Swap, a scenario of the catalog with score 0.
WithNeutral ==
  [i \in 1..Len(out.scenarios) |->
     IF out.scenarios[i] \in DOMAIN SCENARIOS THEN out.scenarios[i] ELSE "Swap"]

\* C28: a scenario name that is not in the catalog counts as a scenario of
\* score 0 (it lowers the mean of the others), a map name that is not in the
\* catalog counts as no map, and calculate_mmr returns an integer for them.
C28_UnknownNamesNeutral ==
  out.op = "calculate_mmr" =>
    /\ out.result \in Int
    /\ SCENARIOS["Swap"] = 0
    /\ (\E i \in 1..Len(out.scenarios) : out.scenarios[i] \notin DOMAIN SCENARIOS) =>
         out.result = calculate_mmr(out.role, out.winner, out.is_survivor, out.kills,
                                    out.assists, out.dmg, out.survival_time,
                                    WithNeutral, out.map_name)
    /\ (out.map_name # "" /\ out.map_name \notin DOMAIN MAPS) =>
         out.result = calculate_mmr(out.role, out.winner, out.is_survivor, out.kills,
                                    out.assists, out.dmg, out.survival_time,
                                    out.scenarios, "")

\* An unknown scenario next to NoHeal halves the mean to -1.5, on an unknown
\* map: the base 34 times 1.075 is 36.55 and gives 36 (39 without the
\* unknown name).
C28_Witness ==
  /\ out.op = "calculate_mmr"
  /\ out.scenarios = <<"NoHeal", "Inconnu">> /\ out.map_name = "Inconnue"
  /\ out.role = "humain" /\ out.winner = "humains" /\ out.is_survivor
  /\ out.kills = 2 /\ out.assists = 0 /\ out.survival_time = 0
  /\ out.result = 36

(***************************************************************************)
(* Properties of calculate_mmr between the other operations (SpecPure).    *)
(* calls[1] is the call made on the empty database.                        *)
(***************************************************************************)
\* Two calls were made with the same arguments.
SameArguments(a, b) ==
  /\ a.role = b.role /\ a.winner = b.winner /\ a.is_survivor = b.is_survivor
  /\ a.kills = b.kills /\ a.assists = b.assists /\ a.dmg = b.dmg
  /\ a.survival_time = b.survival_time
  /\ a.scenarios = b.scenarios /\ a.map_name = b.map_name

UsedDmg(a, name) == Get(a.dmg, name, 0)

\* The damage used for every participant lies in [0, 1000000].
UsedDmgInBounds ==
  out.op = "finalize_match" =>
    \A n \in Range(out.args.players) : UsedDmg(out.args, n) \in 0..1000000

\* C30: the damage finalize_match uses for a participant lies in
\* [0, 1000000] whatever was typed, and it is 0 for every participant that
\* finalize_match settles in the role "humain".
C30_DamageClamped ==
  /\ UsedDmgInBounds
  /\ out.op = "finalize_match" =>
       \A n \in Range(out.args.players) :
         RoleOf(out.args, n) = "humain" => UsedDmg(out.args, n) = 0

(***************************************************************************)
(* Properties of the leaderboard (SpecBoard).                              *)
(***************************************************************************)
Boards == {"leaderboard", "update_hall"}

\* The rows of the table that carry the largest season_id.
CurrentRows == {i \in 1..Len(players) : players[i].season_id = current_season(players)}

\* How many rows of the current season show this name and mmr, and how many
\* rows of the answer do.
InTable(r) ==
  Cardinality({i \in CurrentRows : players[i].minecraft_name = r.minecraft_name
                                     /\ players[i].mmr = r.mmr})

InAnswer(r) == Cardinality({k \in 1..Len(out.rows) : out.rows[k] = r})

\* C31: the leaderboard shows at most 10 rows (all of them when the current
\* season has no more than 10), every one a row of the current season and
\* none twice, by non-increasing mmr, and no row of the current season that
\* is left out has more mmr than a row shown.
C31_TopOfCurrentSeason ==
  out.op \in Boards =>
    /\ out.season = current_season(players)
    /\ Len(out.rows) = Min(BoardLimit, Cardinality(CurrentRows))
    /\ \A k \in 1..Len(out.rows) : InAnswer(out.rows[k]) <= InTable(out.rows[k])
    /\ \A k \in 1..(Len(out.rows) - 1) : out.rows[k].mmr >= out.rows[k + 1].mmr
    /\ \A i \in CurrentRows, k \in 1..Len(out.rows) :
         players[i].mmr > out.rows[k].mmr =>
           \E m \in 1..Len(out.rows) :
             /\ out.rows[m].minecraft_name = players[i].minecraft_name
             /\ out.rows[m].mmr = players[i].mmr

\* More than ten rows of the current season next to a row of season 1: ten
\* are shown, the first with more mmr than the last.
C31_Witness ==
  /\ out.op = "leaderboard"
  /\ Len(out.rows) = BoardLimit
  /\ Cardinality(CurrentRows) > BoardLimit
  /\ Cardinality(CurrentRows) < Len(players)
  /\ out.rows[1].mmr > out.rows[BoardLimit].mmr

(***************************************************************************)
(* Properties of ensure_or_update_message (SpecMessage).                   *)
(***************************************************************************)
MessageCreated == calls'.created > calls.created

DaemonsOnce == calls.firecamp_tasks <= 1 /\ calls.radio_tasks <= 1

\* C33: over any number of on_ready events each daemon task is created at
\* most once and the command tree is synced at most once.  The second part
\* fails when an on_ready starts while another awaits bot.tree.sync().
C33_StartedOnce == DaemonsOnce /\ calls.syncs <= 1

(***************************************************************************)
(* The MMR ledger (SpecLife).                                              *)
(***************************************************************************)
\* The mmr_change of the participation rows a step writes for an identity.
RECURSIVE ChangesWritten(_, _, _)
ChangesWritten(rows, from, discord_id) ==
  IF from > Len(rows) THEN 0
  ELSE (IF rows[from].discord_id = discord_id THEN rows[from].mmr_change ELSE 0)
       + ChangesWritten(rows, from + 1, discord_id)

\* C34: the ledger, step by step.  Participation rows are only added; a
\* players row a step creates has mmr 1000; /resetseason leaves every row
\* at mmr 1000 and writes no participation row; and in every other step the
\* mmr of a row that stays moves by the sum of the mmr_change of the
\* participation rows the step writes for it.  From its registration or
\* the last reset on, the mmr of a row is therefore 1000 plus the deltas of
\* its participation rows written since.
C34_Ledger ==
  [][ /\ Len(match_players') >= Len(match_players)
      /\ SubSeq(match_players', 1, Len(match_players)) = match_players
      /\ \A i \in 1..Len(players') :
           LET row == players'[i]
               written == ChangesWritten(match_players', Len(match_players) + 1, row.discord_id)
           IN IF ~HasPlayer(players, row.discord_id) THEN row.mmr = 1000 /\ written = 0
              ELSE IF out'.op = "resetseason" THEN row.mmr = 1000 /\ written = 0
              ELSE row.mmr = fetch_player(players, row.discord_id).mmr + written
    ]_vars

\* A row reset to season 2 between two settlements: its mmr is 1000 plus
\* the delta of the second participation row, and the first, written
\* before the reset, is still in the table with a delta that is not 0.
C34_Witness ==
  /\ out.op = "finalize_match"
  /\ \E i \in 1..Len(players), r1, r2 \in 1..Len(match_players) :
       /\ players[i].season_id = 2
       /\ r1 < r2
       /\ match_players[r1].discord_id = players[i].discord_id
       /\ match_players[r2].discord_id = players[i].discord_id
       /\ match_players[r1].mmr_change # 0
       /\ match_players[r2].mmr_change # 0
       /\ players[i].mmr = 1000 + match_players[r2].mmr_change

(***************************************************************************)
(* Properties of the stats entry of one match (SpecStats).                 *)
(***************************************************************************)
\* C35: one /matchend flow calls finalize_match at most once and writes at
\* most one matches row.  An earlier "Continuer" view that is still active
\* calls it again.
C35_SettledOnce == Len(matches) <= 1

\* C36: finalize_match is called with a role, a kills entry and a damage
\* entry for every participant.  "Continuer" pressed again while the modal
\* of the last participant is open, or a reset of the roles during the
\* entry, calls it without.
C36_EveryoneEntered ==
  out.op = "finalize_match" =>
    \A p \in Range(players_all) :
      /\ p \in DOMAIN out.args.roles
      /\ p \in DOMAIN out.args.kills
      /\ p \in DOMAIN out.args.dmg

(***************************************************************************)
(* The credits of one settlement (Spec).                                   *)
(***************************************************************************)
\* What a finalize_match step adds to a counter of the player a participant
\* resolves to.
Credit(n, counter) ==
  fetch_player(players', Resolved(players, n).discord_id)[counter]
    - Resolved(players, n)[counter]

\* C37: a settled participant is credited at most one of a defender win, a
\* first-infected win and a loss; one settlement does not credit a defender
\* win and a first-infected win; and a participant the role assignment
\* names as "humain" is credited no loss.
C37_CreditsExclusive ==
  [][ out'.op = "finalize_match" =>
        /\ \A n \in RankedOf(players, out'.args) :
             /\ Credit(n, "wins_humain") \in {0, 1}
             /\ Credit(n, "wins_zombie") \in {0, 1}
             /\ Credit(n, "losses") \in {0, 1}
             /\ Credit(n, "wins_humain") + Credit(n, "wins_zombie") + Credit(n, "losses") <= 1
             /\ (n \in DOMAIN out'.args.roles /\ out'.args.roles[n] = "humain")
                  => Credit(n, "losses") = 0
        /\ ~ \E n, m \in RankedOf(players, out'.args) :
               Credit(n, "wins_humain") = 1 /\ Credit(m, "wins_zombie") = 1 ]_vars

\* A settlement the defenders won: the defender has a win and the first
\* infected a loss, and nothing else.
C37_Witness ==
  /\ out.op = "finalize_match"
  /\ Len(matches) = 1
  /\ \E i, j \in 1..Len(players) :
       /\ players[i].wins_humain = 1 /\ players[i].wins_zombie = 0 /\ players[i].losses = 0
       /\ players[j].wins_humain = 0 /\ players[j].wins_zombie = 0 /\ players[j].losses = 1
       /\ RoleOf(out.args, players[j].minecraft_name) = "firstz"

\* C38: the variation the summary and the "registre" report show for a
\* participant is the change the call applied to the mmr of its players
\* row, and 0 (or no variation at all) for a participant that is unknown or
\* chill.  The report computes a delta for every name of the list.
C38_ReportedIsApplied ==
  [][ out'.op = "finalize_match" =>
        /\ \A i \in 1..Len(out'.lines) :
             out'.lines[i].kind = "settled" =>
               /\ out'.lines[i].name \in RankedOf(players, out'.args)
               /\ out'.lines[i].change =
                    fetch_player(players', Resolved(players, out'.lines[i].name).discord_id).mmr
                      - Resolved(players, out'.lines[i].name).mmr
        /\ \A i \in 1..Len(out'.registre) :
             LET e == out'.registre[i] IN
               IF e.name \in RankedOf(players, out'.args)
               THEN e.change = fetch_player(players', Resolved(players, e.name).discord_id).mmr
                                 - Resolved(players, e.name).mmr
               ELSE e.change = 0 ]_vars

(***************************************************************************)
(* The global season (SpecLife).                                           *)
(***************************************************************************)
\* C39: the current season, MAX(season_id) of the players table and 1 for
\* an empty table, does not decrease in a step.  /unlink of the rows that
\* carry the largest season_id lowers it.
C39_GlobalSeasonMonotone ==
  [][ current_season(players') >= current_season(players) ]_vars

\* C40: every kill count the stats entry hands to finalize_match is an
\* integer that is not negative.  on_submit stores to_int of the text as it
\* is, and int() accepts a sign.
C40_KillsNotNegative ==
  out.op = "finalize_match" =>
    \A p \in DOMAIN out.args.kills : out.args.kills[p] \in Nat

=============================================================================
